---------------------------- MODULE Spec2Model ----------------------------
(***************************************************************************)
(* A model of the erdnuss bus stack: the Controller's polling round        *)
(* (comms/src/controller.rs), the per-slot Peer record (comms/src/peer.rs),*)
(* the Target's wire loop (comms/src/target.rs) and the CmdAddr codec      *)
(* (comms/src/lib.rs).                                                     *)
(*                                                                         *)
(* A frame on the wire is a sequence of bytes (0..255); the first byte is  *)
(* the CmdAddr header.  Controller::step holds the peer-table mutex for    *)
(* the whole call but suspends at every serial.send_frame / serial.recv:   *)
(* one action of the model is one iteration of one of the four loops of    *)
(* step (one bus transaction), and the user-facing calls, which need the   *)
(* mutex, are whole-call actions enabled only while no step is running.    *)
(***************************************************************************)
EXTENDS Integers, Sequences, FiniteSets, TLC

\* ------------------------------------------------------------------ bounds
\* Number of peer slots of the Controller (MAX_TARGETS, 31 in lib.rs:167).
MaxTargets == 2
\* Number of bytes of a unique identifier (8 in the code).
UidBytes == 2
\* Number of Target devices attached to the bus.
NumTargets == 2

\* The application queues at most MaxQueued frames per peer ...
MaxQueued == 1
\* ... and holds at most MaxHeld received frames per peer at a time.
MaxHeld == 1
\* Distinct non-zero UIDs a serial port that may answer anything produces.
NumMacs == 1
\* Number of frames of the FrameStorage<N> under test.
PoolSlots == 3
\* Number of RawFrameSlice values made of it (by take and split).
MaxSlices == 3
\* Number of calls of FrameStorage::take.
MaxTakes == 2

\* ------------------------------------------------------- program constants
INCOMING_SIZE == 4
OUTGOING_SIZE == 8
KNOWN_TIMEOUT == 5
SELECT_ADDR == 1
REPLY_FROM_ADDR == 2
DISCOVERY_OFFER == 4
DISCOVERY_CLAIM == 5
DISCOVERY_SUCCESS == 7

Slots == 0 .. (MaxTargets - 1)
Targets == 1 .. NumTargets
Byte == 0 .. 255

Min(S) == CHOOSE x \in S : \A y \in S : x <= y

\* ----------------------------------------------------------- CmdAddr codec
\* impl From<CmdAddr> for u8: (cmd << 5) | (addr & 0b000_11111), as a u8.
CmdAddrToU8(cmd, addr) == ((cmd * 32) % 256) + (addr % 32)

\* A decoder that takes four address bits.
U8ToCmdAddr_four_bits(value) ==
    LET cmd == value \div 32
        addr == value % 16
    IN  IF cmd \in {SELECT_ADDR, REPLY_FROM_ADDR, DISCOVERY_OFFER,
                    DISCOVERY_CLAIM, DISCOVERY_SUCCESS}
        THEN [ok |-> TRUE, cmd |-> cmd, addr |-> addr]
        ELSE [ok |-> FALSE, cmd |-> 0, addr |-> 0]

\* impl TryFrom<u8> for CmdAddr: Err(Reserved) for the commands 0, 3 and 6.
U8ToCmdAddr(value) ==
    LET cmd == value \div 32
        addr == value % 32
    IN  IF cmd \in {SELECT_ADDR, REPLY_FROM_ADDR, DISCOVERY_OFFER,
                    DISCOVERY_CLAIM, DISCOVERY_SUCCESS}
        THEN [ok |-> TRUE, cmd |-> cmd, addr |-> addr]
        ELSE [ok |-> FALSE, cmd |-> 0, addr |-> 0]

SelectAddr(i) == CmdAddrToU8(SELECT_ADDR, i)
ReplyFromAddr(i) == CmdAddrToU8(REPLY_FROM_ADDR, i)
DiscoveryOffer(i) == CmdAddrToU8(DISCOVERY_OFFER, i)
DiscoveryClaim(i) == CmdAddrToU8(DISCOVERY_CLAIM, i)
DiscoverySuccess(i) == CmdAddrToU8(DISCOVERY_SUCCESS, i)

\* ------------------------------------------------------------ byte helpers
RECURSIVE XorBits(_, _, _)
XorBits(a, b, n) ==
    IF n = 0 THEN 0
    ELSE ((a + b) % 2) + 2 * XorBits(a \div 2, b \div 2, n - 1)

\* *d = *a ^ *b on u8
Xor8(a, b) == XorBits(a, b, 8)

\* the zip(..).for_each(|(d, (a, b))| *d = *a ^ *b) of offer_addr and send_claim
XorBytes(as, bs) == [k \in 1 .. UidBytes |-> Xor8(as[k], bs[k])]

RECURSIVE Pow256(_)
Pow256(n) == IF n = 0 THEN 1 ELSE 256 * Pow256(n - 1)

\* u64::to_le_bytes, on UidBytes bytes
ToLeBytes(m) == [k \in 1 .. UidBytes |-> (m \div Pow256(k - 1)) % 256]

RECURSIVE FromLeBytesUpTo(_, _)
FromLeBytesUpTo(bs, n) ==
    IF n = 0 THEN 0
    ELSE bs[n] * Pow256(n - 1) + FromLeBytesUpTo(bs, n - 1)

\* u64::from_le_bytes, on UidBytes bytes
FromLeBytes(bs) == FromLeBytesUpTo(bs, UidBytes)

\* ------------------------------------------------------------- Peer record
\* heapless::Deque::push_front / pop_back: index 1 is the front.
PushFront(q, x) == <<x>> \o q
Back(q) == q[Len(q)]
PopBack(q) == SubSeq(q, 1, Len(q) - 1)

\* Controller<R> = Controller<R, INCOMING_SIZE, OUTGOING_SIZE> holds
\* Peer<IN, OUT>, whose to_peer is a Deque<FrameBox, IN> and whose from_peer
\* is a Deque<FrameBox, OUT>.
ToPeerCap == INCOMING_SIZE
FromPeerCap == OUTGOING_SIZE

const_new ==
    [state |-> "Free", counter |-> 0, mac |-> 0, instant |-> 0,
     to_peer |-> <<>>, from_peer |-> <<>>]

\* A reset_to_free that forgets to clear the mac.
reset_to_free_keeps_mac(p) ==
    [p EXCEPT !.to_peer = <<>>, !.from_peer = <<>>,
              !.state = "Free", !.instant = 0, !.counter = 0]

reset_to_free(p) ==
    [p EXCEPT !.to_peer = <<>>, !.from_peer = <<>>, !.mac = 0,
              !.state = "Free", !.instant = 0, !.counter = 0]

\* panic!(): the transition was applied to a peer in the wrong state.
Panicked(p) == [p EXCEPT !.state = "Panicked"]

promote_to_active(p) ==
    IF p.state \notin {"Pending", "Known"} THEN Panicked(p)
    ELSE [p EXCEPT !.to_peer = <<>>, !.from_peer = <<>>,
                   !.state = "Active", !.instant = 0, !.counter = 0]

\* A reset_to_known that leaves the queues as they are.
reset_to_known_keeps_queues(p, t) ==
    IF p.state # "Active" THEN Panicked(p)
    ELSE [p EXCEPT !.state = "Known", !.instant = t, !.counter = 0]

reset_to_known(p, t) ==
    IF p.state # "Active" THEN Panicked(p)
    ELSE [p EXCEPT !.to_peer = <<>>, !.from_peer = <<>>,
                   !.state = "Known", !.instant = t, !.counter = 0]

promote_to_known_with_mac(p, mac, t) ==
    IF p.state # "Free" THEN Panicked(p)
    ELSE [p EXCEPT !.mac = mac, !.to_peer = <<>>, !.from_peer = <<>>,
                   !.state = "Known", !.instant = t, !.counter = 0]

promote_to_pending(p, mac) ==
    IF p.state # "Free" THEN Panicked(p)
    ELSE [p EXCEPT !.mac = mac, !.to_peer = <<>>, !.from_peer = <<>>,
                   !.state = "Pending", !.counter = 0]

\* A set_success that leaves the counter as it is.
set_success_keeps_count(p) == p

set_success(p) == [p EXCEPT !.counter = 0]

\* An increment_error that demotes an Active peer one strike later.
increment_error_five_strikes(p, t) ==
    CASE p.state = "Free" -> p
      [] p.state = "Known" -> p
      [] p.state = "Pending" -> reset_to_free(p)
      [] p.state = "Active" ->
            LET q == [p EXCEPT !.counter = p.counter + 1]
            IN  IF q.counter > 4 THEN reset_to_known(q, t) ELSE q

\* t is Instant::now(), read by reset_to_known
increment_error(p, t) ==
    CASE p.state = "Free" -> p
      [] p.state = "Known" -> p
      [] p.state = "Pending" -> reset_to_free(p)
      [] p.state = "Active" ->
            LET q == [p EXCEPT !.counter = p.counter + 1]
            IN  IF q.counter > 3 THEN reset_to_known(q, t) ELSE q

is_pending(p) == p.state = "Pending"
is_active(p) == p.state = "Active"
is_known(p) == p.state = "Known"
\* An is_active_mac that compares the mac alone.
is_active_mac_any_state(p, mac) == p.mac = mac

is_active_mac(p, mac) == IF p.state # "Active" THEN FALSE ELSE p.mac = mac

enqueue_incoming(p, msg) == [p EXCEPT !.from_peer = PushFront(p.from_peer, msg)]
\* A dequeue_incoming that pops the end frames are pushed to.
dequeue_incoming_front(p) == [p EXCEPT !.from_peer = Tail(p.from_peer)]

dequeue_incoming(p) == [p EXCEPT !.from_peer = PopBack(p.from_peer)]
\* A dequeue_outgoing that pops the end frames are pushed to.
dequeue_outgoing_front(p) == [p EXCEPT !.to_peer = Tail(p.to_peer)]

dequeue_outgoing(p) == [p EXCEPT !.to_peer = PopBack(p.to_peer)]


\* No CmdAddr value under test.
NoCodec == [stage |-> "none", cmd |-> 0, addr |-> 0, byte |-> 0, ok |-> FALSE,
            dcmd |-> 0, daddr |-> 0]

\* --------------------------------------------------------------- the state
VARIABLES
    peers,   \* Controller.peers: slot -> Peer
    held,    \* slot -> number of frames of that slot's incoming_pool that the
             \* application holds (returned by recv_from, not yet dropped)
    alloc,   \* slot -> number of frames of that slot's incoming_pool that are
             \* allocated (freelen non-zero): each is owned by one FrameBox
    cpc,     \* where Controller::step is: [phase, i]; phase "idle" = no step
    sent,    \* header bytes the Controller transmitted in the current step
    tgt,     \* Target device -> [pc, addr]
    wire,    \* the last bus transaction, as seen on the medium
    bus,     \* "any": the serial port's answers are unconstrained inputs;
             \* "chatty": the same, with two payloads to tell replies apart;
             \* "wired": they are what the attached Targets transmit
    pool,    \* a FrameStorage<PoolSlots>, the RawFrameSlices made of it and
             \* the live FrameBoxes (frame_pool.rs)
    codec    \* a CmdAddr value on its way through the u8 encoding

vars == <<peers, held, alloc, cpc, sent, tgt, wire, bus, pool, codec>>

\* A count that forgets the frames the application holds.
count_allocatable_no_held(i) == INCOMING_SIZE - Len(peers[i].from_peer)

\* RawFrameSlice::count_allocatable of slot i's incoming_pool: the frames of
\* the pool whose freelen is FREE.
count_allocatable(i) == INCOMING_SIZE - alloc[i]

\* A clear() that forgets the frames instead of dropping them.
ClearedFrames_forgotten(p, q) == 0

\* to_peer.clear(); from_peer.clear() in the transition that took the peer
\* from p to q: every FrameBox of from_peer is dropped, which frees its frame
\* of the incoming pool.  (The frames of to_peer are the application's.)
ClearedFrames(p, q) == IF q.state # p.state THEN Len(p.from_peer) ELSE 0

\* The peer table went from ps to qs by transitions of its slots: what is
\* left allocated of each incoming pool.
AfterClear(ps, qs) == [j \in Slots |-> alloc[j] - ClearedFrames(ps[j], qs[j])]

\* An is_idle that does not look at the pool.
is_idle_free_only(i) == peers[i].state = "Free"

\* An is_idle that takes every slot with an empty pool, whatever its state.
is_idle_any_state(i) == count_allocatable(i) = INCOMING_SIZE

is_idle(i) ==
    IF peers[i].state # "Free" THEN FALSE
    ELSE count_allocatable(i) = INCOMING_SIZE

\* The UID of Target t (its mac: [u8; 8]); distinct and non-zero.
TargetMac(t) == [k \in 1 .. UidBytes |-> (16 * t + k) % 256]

\* UIDs that appear in claims and in add_known_macs lists.
MacDomain == {0} \cup {FromLeBytes(TargetMac(t)) : t \in 1 .. NumMacs}

\* rand.fill_bytes(&mut out_buf[1..9])
Challenges ==
    {[k \in 1 .. UidBytes |-> 0], [k \in 1 .. UidBytes |-> k],
     [k \in 1 .. UidBytes |-> 255]}

\* Frames the application sends: byte 0 is reserved for the header.
UserFrames == {<<0, 10>>}
\* Payloads a Target's application has queued in from_app.
AppPayloads == {<<13, 14>>}

NoTx == <<>>
Tail1(f) == SubSeq(f, 2, Len(f))

\* ------------------------------------------------------------- the Targets
\* Target::get_offer: the frame is an offer when its first byte decodes to
\* DiscoveryOffer and it is at least 9 bytes long.
IsOffer(f) ==
    /\ Len(f) >= 1 + UidBytes
    /\ U8ToCmdAddr(f[1]).ok
    /\ U8ToCmdAddr(f[1]).cmd = DISCOVERY_OFFER

\* Target::send_claim
ClaimFrame(t, offer_addr, challenge) ==
    <<DiscoveryClaim(offer_addr)>> \o XorBytes(TargetMac(t), challenge)

\* A get_success that does not compare the UID.
IsSuccessFor_any_uid(t, offer_addr, f) ==
    /\ Len(f) >= 1
    /\ U8ToCmdAddr(f[1]).ok
    /\ U8ToCmdAddr(f[1]).cmd = DISCOVERY_SUCCESS
    /\ Len(f) >= 1 + UidBytes
    /\ U8ToCmdAddr(f[1]).addr = offer_addr

\* Target::get_success: "Is this for us?"
IsSuccessFor(t, offer_addr, f) ==
    /\ Len(f) >= 1
    /\ U8ToCmdAddr(f[1]).ok
    /\ U8ToCmdAddr(f[1]).cmd = DISCOVERY_SUCCESS
    /\ Len(f) >= 1 + UidBytes
    /\ U8ToCmdAddr(f[1]).addr = offer_addr
    /\ SubSeq(f, 2, 1 + UidBytes) = TargetMac(t)

\* Target::get_incoming: the frame is non-empty, decodes, and is
\* SelectAddr(addr).
IsSelectFor(addr, f) ==
    /\ Len(f) >= 1
    /\ U8ToCmdAddr(f[1]).ok
    /\ U8ToCmdAddr(f[1]).cmd = SELECT_ADDR
    /\ U8ToCmdAddr(f[1]).addr = addr

\* Target<Cfg, IN, OUT> with IN = INCOMING_SIZE: to_app is the Sender of a
\* Channel<_, FrameBox, IN>.
ToAppCap == INCOMING_SIZE

\* The values of Target.state, the Signal the application may wait on.
StateDisconnected == [connected |-> FALSE, addr |-> 0]
StateConnected(a) == [connected |-> TRUE, addr |-> a]

\* A Target on which run() was not started.
TargetOff ==
    [pc |-> "off", addr |-> 0, to_app |-> 0, state |-> StateDisconnected]

\* A Target at the top of run(): Disconnected is signalled, get_addr begins.
\* to_app is the number of frames waiting in the channel to the application.
TargetNew ==
    [pc |-> "get_offer", addr |-> 0, to_app |-> 0, state |-> StateDisconnected]

\* What Target t does on hearing frame f from the Controller: its next place
\* in run() and the frame it transmits (NoTx for none).  go is the coin flip
\* of get_addr (goforit & 0b111 == 0); msg is what from_app.receive()
\* .now_or_never() yields (<<>> for nothing queued).  A Select with a body
\* goes through to_app.send(frame).await first: with the channel full the
\* Target waits there ("to_app_send"), receiving nothing and sending nothing.
TargetReact(t, f, go, msg) ==
    LET s == tgt[t]
    IN  CASE s.pc = "get_offer" ->
                IF IsOffer(f) /\ go
                THEN [st |-> [s EXCEPT !.pc = "get_success",
                                       !.addr = U8ToCmdAddr(f[1]).addr],
                      tx |-> ClaimFrame(t, U8ToCmdAddr(f[1]).addr,
                                       SubSeq(f, 2, 1 + UidBytes))]
                ELSE [st |-> s, tx |-> NoTx]
          [] s.pc = "get_success" ->
                IF IsSuccessFor(t, s.addr, f)
                THEN [st |-> [s EXCEPT !.pc = "service",
                                       !.state = StateConnected(s.addr)],
                      tx |-> <<ReplyFromAddr(s.addr)>>]
                ELSE [st |-> s, tx |-> NoTx]
          [] s.pc = "service" ->
                IF IsSelectFor(s.addr, f)
                THEN IF Len(f) = 1
                     THEN [st |-> s, tx |-> <<ReplyFromAddr(s.addr)>> \o msg]
                     ELSE IF s.to_app < ToAppCap
                     THEN [st |-> [s EXCEPT !.to_app = s.to_app + 1],
                           tx |-> <<ReplyFromAddr(s.addr)>> \o msg]
                     ELSE [st |-> [s EXCEPT !.pc = "to_app_send"], tx |-> NoTx]
                ELSE [st |-> s, tx |-> NoTx]
          [] s.pc = "to_app_send" -> [st |-> s, tx |-> NoTx]
          [] s.pc = "off" -> [st |-> s, tx |-> NoTx]

\* ----------------------------------------------------------------- the bus
\* An outcome of one Controller transaction (send_frame, then a timed recv):
\*   kind  "senderr"  send_frame returned Err
\*         "ok"       recv returned a frame within REPLY_TIMEOUT
\*         "err"      recv returned Err within REPLY_TIMEOUT
\*         "timeout"  with_timeout expired
\*   frame the received bytes; txs the Targets that transmitted; st the
\*   Targets afterwards.
Outcome(kind, frame, txs, st) == [kind |-> kind, frame |-> frame, txs |-> txs, st |-> st]

\* Payloads of the replies to a Select: one, or two to tell frames apart.
ReplyPayloads == IF bus = "chatty" THEN {<<13, 14>>, <<15>>} ELSE {<<13, 14>>}

\* Replies an unconstrained serial port may deliver to the frame f.
AnyReplies(f) ==
    LET a == f[1] % 32
        macs == {XorBytes(ToLeBytes(m), Tail1(f)) : m \in MacDomain}
    IN  CASE f[1] \div 32 = SELECT_ADDR ->
                {<<ReplyFromAddr(a)>> \o pl : pl \in ReplyPayloads}
                \cup {<<ReplyFromAddr(a)>>,
                      <<>>, <<ReplyFromAddr(a + 1)>>, <<SelectAddr(a), 13>>, <<0>>}
          [] f[1] \div 32 = DISCOVERY_SUCCESS ->
                {<<ReplyFromAddr(a)>>, <<ReplyFromAddr(a), 0>>, <<>>,
                 <<ReplyFromAddr(a + 1)>>, <<DiscoveryClaim(a)>>}
          [] f[1] \div 32 = DISCOVERY_OFFER ->
                {<<DiscoveryClaim(a)>> \o b : b \in macs}
                \cup {<<DiscoveryClaim(a + 1)>> \o b : b \in macs}
                \cup {<<ReplyFromAddr(a)>> \o b : b \in macs}
                \cup {<<DiscoveryClaim(a)>>, <<>>}

AnyOutcomes(f) ==
    {Outcome(k, <<>>, {}, tgt) : k \in {"senderr", "err", "timeout"}}
    \cup {Outcome("ok", r, {}, tgt) : r \in AnyReplies(f)}

\* The outcomes on a wired bus: every Target hears f; the Controller hears
\* nothing (timeout), the one reply, or, when several Targets transmit at
\* once, a receive error or either frame.
WiredOutcomes(f) ==
    LET msgs == {<<>>} \cup AppPayloads
        choices == [Targets -> BOOLEAN \X msgs]
    IN  UNION {
          LET r == [t \in Targets |-> TargetReact(t, f, c[t][1], c[t][2])]
              txs == {t \in Targets : r[t].tx # NoTx}
              st == [t \in Targets |-> r[t].st]
          IN  IF txs = {} THEN {Outcome("timeout", <<>>, txs, st)}
              ELSE IF Cardinality(txs) = 1
              THEN {Outcome("ok", r[CHOOSE t \in txs : TRUE].tx, txs, st)}
              ELSE {Outcome("err", <<>>, txs, st)}
                   \cup {Outcome("ok", r[t].tx, txs, st) : t \in txs}
          : c \in choices}

\* serial.send_frame(f) followed by with_timeout(REPLY_TIMEOUT, serial.recv)
BusOutcomes(f) == IF bus = "wired" THEN WiredOutcomes(f) ELSE AnyOutcomes(f)

\* serial.recv(&mut buf): at most cap bytes are returned.
RecvInto(f, cap) == IF Len(f) > cap THEN SubSeq(f, 1, cap) ELSE f

OnWire(f, o, rx) ==
    [hdr |-> f[1], tx |-> f, txs |-> o.txs, kind |-> o.kind,
     rxhdr |-> IF Len(rx) = 0 THEN 0 ELSE rx[1], rxlen |-> Len(rx)]


\* ------------------------------------------------------ Controller::step
\* Instant::now(): the origin of the clock is the present, in seconds.
now == 0
\* The oldest Instant told apart: one second more than KNOWN_TIMEOUT ago.
Oldest == now - (KNOWN_TIMEOUT + 1)

Idle == [phase |-> "idle", i |-> 0]
\* step has its result, Ok(()) or Err(e), and is about to return (and to
\* release the mutex)
Done == [phase |-> "done", i |-> 0]
Failed == [phase |-> "failed", i |-> 0]
NoWire == [hdr |-> 0, tx |-> <<>>, txs |-> {}, kind |-> "none", rxhdr |-> 0, rxlen |-> 0]

\* A step that goes back to polling when Phase B leaves an Active slot.
NextPc_repoll(phase, from, ps) ==
    LET act == {j \in Slots : (phase = "A" => j >= from) /\ is_active(ps[j])}
        pen == {j \in Slots : (phase = "B" => j >= from) /\ is_pending(ps[j])}
        kno == {j \in Slots : (phase = "C" => j >= from) /\ is_known(ps[j])}
    IN  IF phase \in {"A", "B"} /\ act # {} THEN [phase |-> "A", i |-> Min(act)]
        ELSE IF phase \in {"A", "B"} /\ pen # {} THEN [phase |-> "B", i |-> Min(pen)]
        ELSE IF phase \in {"A", "B", "C"} /\ kno # {} THEN [phase |-> "C", i |-> Min(kno)]
        ELSE [phase |-> "D", i |-> 0]

\* The next loop iteration of step that does something, from slot `from` of
\* `phase` on: serve_peers visits the Active slots, complete_pendings the
\* Pending ones, update_known the Known ones, each in ascending index (all
\* other slots `continue`); offer_addr always runs.  Only step changes the
\* peer table while it holds the mutex.
NextPc(phase, from, ps) ==
    LET act == {j \in Slots : j >= from /\ is_active(ps[j])}
        pen == {j \in Slots : (phase = "B" => j >= from) /\ is_pending(ps[j])}
        kno == {j \in Slots : (phase = "C" => j >= from) /\ is_known(ps[j])}
    IN  IF phase = "A" /\ act # {} THEN [phase |-> "A", i |-> Min(act)]
        ELSE IF phase \in {"A", "B"} /\ pen # {} THEN [phase |-> "B", i |-> Min(pen)]
        ELSE IF phase \in {"A", "B", "C"} /\ kno # {} THEN [phase |-> "C", i |-> Min(kno)]
        ELSE [phase |-> "D", i |-> 0]

\* let mut inner = self.peers.lock().await
StepBegin ==
    /\ cpc.phase = "idle"
    /\ cpc' = NextPc("A", 0, peers)
    /\ UNCHANGED <<peers, held, alloc, sent, tgt, wire, bus, pool, codec>>

\* step returns: the MutexGuard is dropped.  The record of what was on the
\* wire during the step is cleared with it.
StepEnd ==
    /\ cpc.phase \in {"done", "failed"}
    /\ cpc' = Idle
    /\ sent' = <<>>
    /\ wire' = NoWire
    /\ UNCHANGED <<peers, held, alloc, tgt, bus, pool, codec>>

\* A serve_peers that does not count a receive error.
ServeReply_err_uncounted(p, i, o, t) ==
    LET rx == RecvInto(o.frame, 255)
    IN  CASE o.kind = "senderr" -> p
          [] o.kind = "ok" ->
                IF Len(rx) # 0 /\ rx[1] = ReplyFromAddr(i)
                THEN IF Len(rx) > 1
                     THEN enqueue_incoming(set_success(p), rx)
                     ELSE set_success(p)
                ELSE increment_error(p, t)
          [] o.kind = "err" -> p
          [] o.kind = "timeout" -> increment_error(p, t)

\* A serve_peers that enqueues the empty acknowledgement too.
ServeReply_enqueues_ack(p, i, o, t) ==
    LET rx == RecvInto(o.frame, 255)
    IN  CASE o.kind = "senderr" -> p
          [] o.kind = "ok" ->
                IF Len(rx) # 0 /\ rx[1] = ReplyFromAddr(i)
                THEN enqueue_incoming(set_success(p), rx)
                ELSE increment_error(p, t)
          [] o.kind = "err" -> increment_error(p, t)
          [] o.kind = "timeout" -> increment_error(p, t)

\* The classification of the reply in serve_peers.
ServeReply(p, i, o, t) ==
    LET rx == RecvInto(o.frame, 255)
    IN  CASE o.kind = "senderr" -> p
          [] o.kind = "ok" ->
                IF Len(rx) # 0 /\ rx[1] = ReplyFromAddr(i)
                THEN IF Len(rx) > 1
                     THEN enqueue_incoming(set_success(p), rx)
                     ELSE set_success(p)
                ELSE increment_error(p, t)
          [] o.kind = "err" -> increment_error(p, t)
          [] o.kind = "timeout" -> increment_error(p, t)

\* The frame rx that serve_peers allocated for the reply of slot i: 1 when it
\* was moved into from_peer, 0 when it was dropped at the end of the
\* iteration or on the early return, which frees it.
RxKept(i, o) ==
    LET rx == RecvInto(o.frame, 255)
    IN  IF o.kind = "ok" /\ Len(rx) # 0 /\ rx[1] = ReplyFromAddr(i) /\ Len(rx) > 1
        THEN 1 ELSE 0

\* One iteration of the loop of serve_peers, for the Active slot cpc.i.
ServePeer ==
    /\ cpc.phase = "A"
    /\ LET i == cpc.i
           p == peers[i]
       IN  IF count_allocatable(i) = 0
           THEN LET np == [peers EXCEPT ![i] = increment_error(p, now)]
                IN  /\ peers' = np
                    /\ alloc' = AfterClear(peers, np)
                    /\ cpc' = NextPc("A", i + 1, np)
                    /\ UNCHANGED <<sent, tgt, wire>>
           ELSE LET has == Len(p.to_peer) > 0
                    q == IF has THEN dequeue_outgoing(p) ELSE p
                    to_send == IF has
                               THEN [Back(p.to_peer) EXCEPT ![1] = SelectAddr(i)]
                               ELSE <<SelectAddr(i)>>
                IN  \E o \in BusOutcomes(to_send) :
                        LET np == [peers EXCEPT ![i] = ServeReply(q, i, o, now)]
                        IN  /\ peers' = np
                            /\ alloc' = [AfterClear(peers, np) EXCEPT
                                            ![i] = @ + RxKept(i, o)]
                            /\ tgt' = o.st
                            /\ wire' = OnWire(to_send, o, RecvInto(o.frame, 255))
                            /\ cpc' = IF o.kind \in {"senderr", "err"}
                                      THEN Failed
                                      ELSE NextPc("A", i + 1, np)
                            /\ sent' = IF o.kind = "senderr" THEN sent
                                       ELSE Append(sent, to_send[1])
    /\ UNCHANGED <<held, bus, pool, codec>>

\* out_buf of complete_pendings and update_known
SuccessFrame(i, mac) == <<DiscoverySuccess(i)>> \o ToLeBytes(mac)

\* An AckReply that does not look at the length of the reply.
AckReply_any_len(p, i, o, t) ==
    LET frame == RecvInto(o.frame, 2)
        good_hdr == Len(frame) >= 1 /\ frame[1] = ReplyFromAddr(i)
    IN  CASE o.kind = "senderr" -> p
          [] o.kind = "ok" ->
                IF good_hdr THEN promote_to_active(p) ELSE increment_error(p, t)
          [] o.kind = "err" -> increment_error(p, t)
          [] o.kind = "timeout" -> increment_error(p, t)

\* The classification of the reply in complete_pendings and update_known;
\* in_buf holds 2 bytes.
AckReply(p, i, o, t) ==
    LET frame == RecvInto(o.frame, 2)
        good_len == Len(frame) = 1
        good_hdr == good_len /\ frame[1] = ReplyFromAddr(i)
    IN  CASE o.kind = "senderr" -> p
          [] o.kind = "ok" ->
                IF good_hdr THEN promote_to_active(p) ELSE increment_error(p, t)
          [] o.kind = "err" -> increment_error(p, t)
          [] o.kind = "timeout" -> increment_error(p, t)

\* One iteration of the loop of complete_pendings, for the Pending slot cpc.i.
CompletePending ==
    /\ cpc.phase = "B"
    /\ LET i == cpc.i
           p == peers[i]
           out_buf == SuccessFrame(i, p.mac)
       IN  \E o \in BusOutcomes(out_buf) :
               LET np == [peers EXCEPT ![i] = AckReply(p, i, o, now)]
               IN  /\ peers' = np
                   /\ alloc' = AfterClear(peers, np)
                   /\ tgt' = o.st
                   /\ wire' = OnWire(out_buf, o, RecvInto(o.frame, 2))
                   /\ cpc' = IF o.kind = "senderr" THEN Failed
                             ELSE NextPc("B", i + 1, np)
                   /\ sent' = IF o.kind = "senderr" THEN sent
                              ELSE Append(sent, out_buf[1])
    /\ UNCHANGED <<held, bus, pool, codec>>

\* if instant + KNOWN_TIMEOUT >= Instant::now() { p.reset_to_free(); continue; }
known_timed_out(instant, t) == instant + KNOWN_TIMEOUT >= t

\* One iteration of the loop of update_known, for the Known slot cpc.i.
UpdateKnown ==
    /\ cpc.phase = "C"
    /\ LET i == cpc.i
           p == peers[i]
           out_buf == SuccessFrame(i, p.mac)
       IN  IF known_timed_out(p.instant, now)
           THEN LET np == [peers EXCEPT ![i] = reset_to_free(p)]
                IN  /\ peers' = np
                    /\ alloc' = AfterClear(peers, np)
                    /\ cpc' = NextPc("C", i + 1, np)
                    /\ UNCHANGED <<sent, tgt, wire>>
           ELSE \E o \in BusOutcomes(out_buf) :
                    LET np == [peers EXCEPT ![i] = AckReply(p, i, o, now)]
                    IN  /\ peers' = np
                        /\ alloc' = AfterClear(peers, np)
                        /\ tgt' = o.st
                        /\ wire' = OnWire(out_buf, o, RecvInto(o.frame, 2))
                        /\ cpc' = IF o.kind = "senderr" THEN Failed
                                  ELSE NextPc("C", i + 1, np)
                        /\ sent' = IF o.kind = "senderr" THEN sent
                                   ELSE Append(sent, out_buf[1])
    /\ UNCHANGED <<held, bus, pool, codec>>

\* A ClaimReply that takes the bytes of the claim for the UID.
ClaimReply_no_xor(p, i, challenge, o) ==
    LET frame == RecvInto(o.frame, 2 + UidBytes)
        good_len == Len(frame) = 1 + UidBytes
        good_hdr == good_len /\ frame[1] = DiscoveryClaim(i)
    IN  IF o.kind = "ok" /\ good_hdr
        THEN promote_to_pending(p, FromLeBytes(Tail1(frame)))
        ELSE p

\* The classification of the reply in offer_addr; in_buf holds 10 bytes, one
\* more than a claim.
ClaimReply(p, i, challenge, o) ==
    LET frame == RecvInto(o.frame, 2 + UidBytes)
        good_len == Len(frame) = 1 + UidBytes
        good_hdr == good_len /\ frame[1] = DiscoveryClaim(i)
    IN  IF o.kind = "ok" /\ good_hdr
        THEN promote_to_pending(p, FromLeBytes(XorBytes(challenge, Tail1(frame))))
        ELSE p

\* An offer_addr that offers again when nobody claimed the offer.
OfferAddr_until_claimed ==
    /\ cpc.phase = "D"
    /\ IF \A j \in Slots : ~is_idle(j)
       THEN /\ cpc' = Done
            /\ UNCHANGED <<peers, alloc, sent, tgt, wire>>
       ELSE LET i == Min({j \in Slots : is_idle(j)})
            IN  \E challenge \in Challenges :
                    LET out_buf == <<DiscoveryOffer(i)>> \o challenge
                    IN  \E o \in BusOutcomes(out_buf) :
                            /\ peers' = [peers EXCEPT
                                           ![i] = ClaimReply(peers[i], i, challenge, o)]
                            /\ alloc' = AfterClear(peers, peers')
                            /\ tgt' = o.st
                            /\ wire' = OnWire(out_buf, o, RecvInto(o.frame, 2 + UidBytes))
                            /\ cpc' = IF o.kind \in {"senderr", "err"} THEN Failed
                                      ELSE IF o.kind = "timeout" THEN cpc
                                      ELSE Done
                            /\ sent' = IF o.kind = "senderr" THEN sent
                                       ELSE Append(sent, out_buf[1])
    /\ UNCHANGED <<held, bus, pool, codec>>

\* offer_addr: the first idle slot, if any, is offered with a random challenge.
OfferAddr ==
    /\ cpc.phase = "D"
    /\ IF \A j \in Slots : ~is_idle(j)
       THEN /\ cpc' = Done
            /\ UNCHANGED <<peers, alloc, sent, tgt, wire>>
       ELSE LET i == Min({j \in Slots : is_idle(j)})
            IN  \E challenge \in Challenges :
                    LET out_buf == <<DiscoveryOffer(i)>> \o challenge
                    IN  \E o \in BusOutcomes(out_buf) :
                            /\ peers' = [peers EXCEPT
                                           ![i] = ClaimReply(peers[i], i, challenge, o)]
                            /\ alloc' = AfterClear(peers, peers')
                            /\ tgt' = o.st
                            /\ wire' = OnWire(out_buf, o, RecvInto(o.frame, 2 + UidBytes))
                            /\ cpc' = IF o.kind \in {"senderr", "err"}
                                      THEN Failed ELSE Done
                            /\ sent' = IF o.kind = "senderr" THEN sent
                                       ELSE Append(sent, out_buf[1])
    /\ UNCHANGED <<held, bus, pool, codec>>


\* ------------------------------------------------- the user-facing calls
\* iter_mut().find(|p| p.is_active_mac(mac)): the set is empty for None.
FindActiveMac(mac) ==
    LET hit == {j \in Slots : is_active_mac(peers[j], mac)}
    IN  IF hit = {} THEN {} ELSE {Min(hit)}

\* Peer::enqueue_outgoing: Deque::push_front fails on a full deque and
\* hands the frame back.
enqueue_outgoing(p, msg) ==
    IF Len(p.to_peer) >= ToPeerCap
    THEN [ok |-> FALSE, p |-> p]
    ELSE [ok |-> TRUE, p |-> [p EXCEPT !.to_peer = PushFront(p.to_peer, msg)]]

\* What Controller::send(mac, frame) returns in the current state.
SendResult(mac, frame) ==
    IF FindActiveMac(mac) = {} THEN "NoMatchingMac"
    ELSE IF enqueue_outgoing(peers[Min(FindActiveMac(mac))], frame).ok THEN "Ok"
    ELSE "QueueFull"

\* The peer table after Controller::send(mac, frame).
SendPeers(mac, frame) ==
    IF FindActiveMac(mac) = {}
    THEN peers
    ELSE LET i == Min(FindActiveMac(mac))
             r == enqueue_outgoing(peers[i], frame)
         IN  [peers EXCEPT ![i] = r.p]

\* A send that does not wait for the mutex.
Send_unlocked(mac, frame) ==
    /\ peers' = SendPeers(mac, frame)
    /\ UNCHANGED <<held, alloc, cpc, sent, tgt, wire, bus, pool, codec>>

\* Controller::send
Send(mac, frame) ==
    /\ cpc.phase = "idle"
    /\ peers' = SendPeers(mac, frame)
    /\ UNCHANGED <<held, alloc, cpc, sent, tgt, wire, bus, pool, codec>>

\* What Controller::recv_from(mac) returns in the current state: an error,
\* or the frame at the back of from_peer.
RecvFromResult(mac) ==
    IF FindActiveMac(mac) = {} THEN [res |-> "NoMatchingMac", frame |-> <<>>]
    ELSE IF Len(peers[Min(FindActiveMac(mac))].from_peer) = 0
    THEN [res |-> "NoMessage", frame |-> <<>>]
    ELSE [res |-> "Ok", frame |-> Back(peers[Min(FindActiveMac(mac))].from_peer)]

\* Controller::recv_from: the frame returned is now owned by the application.
RecvFrom(mac) ==
    /\ cpc.phase = "idle"
    /\ IF FindActiveMac(mac) = {}
       THEN UNCHANGED <<peers, held>>
       ELSE LET i == Min(FindActiveMac(mac))
            IN  IF Len(peers[i].from_peer) = 0
                THEN UNCHANGED <<peers, held>>
                ELSE /\ peers' = [peers EXCEPT ![i] = dequeue_incoming(peers[i])]
                     /\ held' = [held EXCEPT ![i] = held[i] + 1]
    /\ UNCHANGED <<alloc, cpc, sent, tgt, wire, bus, pool, codec>>

\* impl Drop for FrameBox, for a frame the application got from recv_from:
\* a store to the slot's flag, which needs no lock.
DropFrame(i) ==
    /\ held[i] > 0
    /\ held' = [held EXCEPT ![i] = held[i] - 1]
    /\ alloc' = [alloc EXCEPT ![i] = alloc[i] - 1]
    /\ UNCHANGED <<peers, cpc, sent, tgt, wire, bus, pool, codec>>

RECURSIVE ActiveMacsFrom(_)
ActiveMacsFrom(j) ==
    IF j >= MaxTargets THEN <<>>
    ELSE (IF is_active(peers[j]) THEN <<peers[j].mac>> ELSE <<>>)
         \o ActiveMacsFrom(j + 1)

\* What Controller::connected() returns in the current state; the call
\* changes nothing.
connected == ActiveMacsFrom(0)

\* A for_each that gives every idle slot the last mac, popping nothing.
RECURSIVE AddKnownFrom_no_pop(_, _, _)
AddKnownFrom_no_pop(ps, j, macs) ==
    IF j >= MaxTargets THEN ps
    ELSE IF Len(macs) # 0 /\ is_idle(j)
         THEN AddKnownFrom_no_pop(
                  [ps EXCEPT ![j] = promote_to_known_with_mac(ps[j], Back(macs), now)],
                  j + 1, macs)
         ELSE AddKnownFrom_no_pop(ps, j + 1, macs)

\* The for_each of add_known_macs from slot j on: an idle slot takes
\* macs.pop(), the last element of the list.
RECURSIVE AddKnownFrom(_, _, _)
AddKnownFrom(ps, j, macs) ==
    IF j >= MaxTargets THEN ps
    ELSE IF Len(macs) # 0 /\ is_idle(j)
         THEN AddKnownFrom(
                  [ps EXCEPT ![j] = promote_to_known_with_mac(ps[j], Back(macs), now)],
                  j + 1, PopBack(macs))
         ELSE AddKnownFrom(ps, j + 1, macs)

\* Controller::add_known_macs
AddKnownMacs(macs) ==
    /\ cpc.phase = "idle"
    /\ peers' = AddKnownFrom(peers, 0, macs)
    /\ alloc' = AfterClear(peers, peers')
    /\ UNCHANGED <<held, cpc, sent, tgt, wire, bus, pool, codec>>

\* heapless::Vec<u64, MAX_TARGETS> values passed to add_known_macs
MacLists == UNION {[1 .. n -> MacDomain] : n \in 1 .. MaxTargets}

\* One second passes.  Time is measured from the present: every Instant a
\* peer holds moves one second into the past.  An Instant more than
\* KNOWN_TIMEOUT old stays at Oldest: every comparison of it with the
\* present has the same result from then on.  A step lasts milliseconds
\* (REPLY_TIMEOUT per transaction): the seconds pass between steps.
Tick ==
    /\ cpc.phase = "idle"
    /\ \E j \in Slots : is_known(peers[j]) /\ peers[j].instant > Oldest
    /\ peers' = [j \in Slots |->
                   IF is_known(peers[j]) /\ peers[j].instant > Oldest
                   THEN [peers[j] EXCEPT !.instant = peers[j].instant - 1]
                   ELSE peers[j]]
    /\ UNCHANGED <<held, alloc, cpc, sent, tgt, wire, bus, pool, codec>>

\* --------------------------------------------------- Target::run timeouts
\* with_timeout(Cfg::ADDRESS_CLAIM_TIMEOUT, claim_dance) expires: get_addr
\* loops back to get_offer.
ClaimTimeout(t) ==
    /\ tgt[t].pc = "get_success"
    /\ tgt' = [tgt EXCEPT ![t].pc = "get_offer", ![t].addr = 0]
    /\ UNCHANGED <<peers, held, alloc, cpc, sent, wire, bus, pool, codec>>

\* A timeout after which the application is not told of the disconnection.
SelectTimeout_no_signal(t) ==
    /\ tgt[t].pc \in {"service", "to_app_send"}
    /\ tgt' = [tgt EXCEPT ![t].pc = "get_offer", ![t].addr = 0]
    /\ UNCHANGED <<peers, held, alloc, cpc, sent, wire, bus, pool, codec>>

\* with_timeout(Cfg::SELECT_TIMEOUT, self.exchange_one(addr)) expires:
\* continue 'outer, which signals Disconnected and is back in get_addr.  The
\* exchange is dropped where it was, with the frame it was handing over.
SelectTimeout(t) ==
    /\ tgt[t].pc \in {"service", "to_app_send"}
    /\ tgt' = [tgt EXCEPT ![t].pc = "get_offer", ![t].addr = 0,
                          ![t].state = StateDisconnected]
    /\ UNCHANGED <<peers, held, alloc, cpc, sent, wire, bus, pool, codec>>

\* exchange_one returns Err within the timeout: serial.recv failed, or
\* pool.allocate_raw() found every frame of the Target's pool in use by the
\* application (TargetError::Oom): continue 'outer.
ExchangeError(t) ==
    /\ tgt[t].pc = "service"
    /\ tgt' = [tgt EXCEPT ![t].pc = "get_offer", ![t].addr = 0,
                          ![t].state = StateDisconnected]
    /\ UNCHANGED <<peers, held, alloc, cpc, sent, wire, bus, pool, codec>>

\* The application of Target t takes a frame from to_app (and drops it when
\* done).  A Target waiting in to_app.send(frame) gets the place: its frame
\* is queued and it goes on to its reply, which it transmits now, long after
\* the Controller stopped listening for it.
AppReceive(t) ==
    /\ tgt[t].to_app > 0
    /\ tgt' = IF tgt[t].pc = "to_app_send"
              THEN [tgt EXCEPT ![t].pc = "service"]
              ELSE [tgt EXCEPT ![t].to_app = tgt[t].to_app - 1]
    /\ UNCHANGED <<peers, held, alloc, cpc, sent, wire, bus, pool, codec>>

\* ---------------------------------------------------------- the frame pool
PoolIdx == 0 .. (PoolSlots - 1)

\* No call on the pool yet.
NoCall == [op |-> "none", arg |-> 0, cap |-> 0, res |-> "none"]

\* FrameStorage::new(): every RawFrame is RawFrame::VAL (freelen 0), once is
\* false.  takes counts the calls of take, from_static its Some results;
\* boxes[k] counts the live FrameBoxes whose ptr is frame k; last is the last
\* call made and what it returned.
PoolNew ==
    [once |-> FALSE, takes |-> 0, from_static |-> 0,
     flags |-> [k \in PoolIdx |-> 0],
     boxes |-> [k \in PoolIdx |-> 0],
     slices |-> <<>>,
     last |-> NoCall]

\* RawFrameSlice {start, len, next_idx}, with the place of its owner in
\* allocate_raw: pc, the index idx under test, and the indexes left to test.
NewSlice(start, len) ==
    [start |-> start, len |-> len, next_idx |-> 0,
     pc |-> "idle", idx |-> 0, left |-> 0]

\* A take_gac that grants the storage every time.
TakeResult_always == "Some"

\* What FrameStorage::take returns.
TakeResult == IF pool.once THEN "None" ELSE "Some"

\* FrameStorage::take: take_gac in its critical section, then from_static.
Take ==
    /\ pool.takes < MaxTakes
    /\ pool' = [pool EXCEPT
                  !.once = TRUE,
                  !.takes = pool.takes + 1,
                  !.from_static = IF TakeResult = "Some" THEN pool.from_static + 1
                                  ELSE pool.from_static,
                  !.slices = IF TakeResult = "Some"
                             THEN Append(pool.slices, NewSlice(0, PoolSlots))
                             ELSE pool.slices,
                  !.last = [op |-> "take", arg |-> 0, cap |-> PoolSlots,
                            res |-> TakeResult]]
    /\ UNCHANGED <<peers, held, alloc, cpc, sent, tgt, wire, bus, codec>>

\* What RawFrameSlice::split(at) returns for the slice sl.
SplitResult(sl, at) == IF (at = 0) \/ (at > sl.len) THEN "None" ELSE "Some"

\* A split whose new slice starts one frame early.
SplitTail_one_early(sl, at) == NewSlice(sl.start + at - 1, (sl.len - at) + 1)

\* The slice RawFrameSlice::split returns: start + at, len - at, next_idx 0.
SplitTail(sl, at) == NewSlice(sl.start + at, sl.len - at)

\* RawFrameSlice::split: self keeps [..at], the new slice is [at..].
Split(s, at) ==
    /\ pool.slices[s].pc = "idle"
    /\ Len(pool.slices) < MaxSlices
    /\ LET sl == pool.slices[s]
           res == SplitResult(sl, at)
       IN  pool' = [pool EXCEPT
                      !.slices = IF res = "None" THEN pool.slices
                                 ELSE Append([pool.slices EXCEPT ![s].len = at],
                                             SplitTail(sl, at)),
                      !.last = [op |-> "split", arg |-> at, cap |-> sl.len,
                                res |-> res]]
    /\ UNCHANGED <<peers, held, alloc, cpc, sent, tgt, wire, bus, codec>>

\* allocate_raw up to the loop: None for an empty slice, next_idx wrapped.
AllocBegin(s) ==
    /\ pool.slices[s].pc = "idle"
    /\ LET sl == pool.slices[s]
       IN  IF sl.len = 0
           THEN pool' = [pool EXCEPT
                           !.last = [op |-> "alloc", arg |-> s, cap |-> 0,
                                     res |-> "None"]]
           ELSE LET first == IF sl.next_idx >= sl.len THEN 0 ELSE sl.next_idx
                IN  pool' = [pool EXCEPT
                               !.slices[s] = [sl EXCEPT !.next_idx = first,
                                                        !.pc = "scan",
                                                        !.idx = first,
                                                        !.left = sl.len]]
    /\ UNCHANGED <<peers, held, alloc, cpc, sent, tgt, wire, bus, codec>>

\* A load that takes every frame for free.
IsFree_any(k) == TRUE

\* atom.load(Ordering::Acquire) == RawFrame::FREE, for frame k of the storage
IsFree(k) == pool.flags[k] = 0

\* One iteration of the loop of allocate_raw up to the load of freelen; the
\* end of the search returns None.
AllocLoad(s) ==
    /\ pool.slices[s].pc = "scan"
    /\ LET sl == pool.slices[s]
       IN  IF sl.left = 0
           THEN pool' = [pool EXCEPT
                           !.slices[s] = [sl EXCEPT !.pc = "idle"],
                           !.last = [op |-> "alloc", arg |-> s, cap |-> sl.len,
                                     res |-> "None"]]
           ELSE IF IsFree(sl.start + sl.idx)
           THEN pool' = [pool EXCEPT !.slices[s] = [sl EXCEPT !.pc = "store"]]
           ELSE pool' = [pool EXCEPT
                           !.slices[s] = [sl EXCEPT !.idx = (sl.idx + 1) % sl.len,
                                                    !.left = sl.left - 1]]
    /\ UNCHANGED <<peers, held, alloc, cpc, sent, tgt, wire, bus, codec>>

\* atom.store(RawFrame::MAX_LEN); self.next_idx = idx + 1; Some(FrameBox)
AllocStore(s) ==
    /\ pool.slices[s].pc = "store"
    /\ LET sl == pool.slices[s]
           k == sl.start + sl.idx
       IN  pool' = [pool EXCEPT
                      !.flags[k] = 255,
                      !.boxes[k] = pool.boxes[k] + 1,
                      !.slices[s] = [sl EXCEPT !.next_idx = sl.idx + 1,
                                               !.pc = "idle"],
                      !.last = [op |-> "alloc", arg |-> k, cap |-> sl.len,
                                res |-> "Some"]]
    /\ UNCHANGED <<peers, held, alloc, cpc, sent, tgt, wire, bus, codec>>

\* Lengths passed to FrameBox::set_len; 0 and 256 reach unreachable!().
PoolLens == {0, 1, 255, 256}

\* FrameBox::set_len on a live FrameBox of frame k, by whoever owns the box.
SetLen(k, len) ==
    /\ pool.boxes[k] > 0
    /\ ~(len = 0 \/ len > 255)
    /\ pool' = [pool EXCEPT
                  !.flags[k] = len,
                  !.last = [op |-> "set_len", arg |-> k, cap |-> len, res |-> "none"]]
    /\ UNCHANGED <<peers, held, alloc, cpc, sent, tgt, wire, bus, codec>>

\* impl Drop for FrameBox, for a live FrameBox of frame k: store(FREE).
DropBox(k) ==
    /\ pool.boxes[k] > 0
    /\ pool' = [pool EXCEPT
                  !.flags[k] = 0,
                  !.boxes[k] = pool.boxes[k] - 1,
                  !.last = [op |-> "drop", arg |-> k, cap |-> 0, res |-> "none"]]
    /\ UNCHANGED <<peers, held, alloc, cpc, sent, tgt, wire, bus, codec>>

\* ------------------------------------------------------ the specifications
\* After Controller::uninit() and Controller::init(): every slot Free with an
\* INCOMING_SIZE-frame pool; every Target at the top of run().
InitCommon ==
    /\ peers = [j \in Slots |-> const_new]
    /\ held = [j \in Slots |-> 0]
    /\ alloc = [j \in Slots |-> 0]
    /\ cpc = Idle
    /\ sent = <<>>
    /\ tgt = [t \in Targets |-> TargetNew]
    /\ wire = NoWire

Init == InitCommon /\ bus = "any" /\ pool = PoolNew /\ codec = NoCodec


QueuedBelow(mac, n) == \A j \in FindActiveMac(mac) : Len(peers[j].to_peer) < n
HeldBelow(mac, n) == \A j \in FindActiveMac(mac) : held[j] < n

Next ==
    \/ StepBegin
    \/ ServePeer
    \/ CompletePending
    \/ UpdateKnown
    \/ OfferAddr
    \/ StepEnd
    \/ \E mac \in MacDomain, frame \in UserFrames :
          QueuedBelow(mac, MaxQueued) /\ Send(mac, frame)
    \/ \E mac \in MacDomain : HeldBelow(mac, MaxHeld) /\ RecvFrom(mac)
    \/ \E i \in Slots : DropFrame(i)
    \/ \E macs \in MacLists : AddKnownMacs(macs)
    \/ Tick

\* The Controller against a serial port that may answer anything.
Spec == Init /\ [][Next]_vars

InitBus == InitCommon /\ bus = "wired" /\ pool = PoolNew /\ codec = NoCodec

NextBus ==
    \/ StepBegin
    \/ ServePeer
    \/ CompletePending
    \/ UpdateKnown
    \/ OfferAddr
    \/ StepEnd
    \/ \E t \in Targets : ClaimTimeout(t)
    \/ \E t \in Targets : SelectTimeout(t)
    \/ Tick

\* One Controller and NumTargets Targets on a reliable bus.
SpecBus == InitBus /\ [][NextBus]_vars

NextTgt ==
    \/ StepBegin
    \/ ServePeer /\ wire'.rxlen <= 1
    \/ CompletePending
    \/ UpdateKnown
    \/ OfferAddr
    \/ StepEnd
    \/ \E mac \in MacDomain, frame \in UserFrames :
          QueuedBelow(mac, MaxQueued) /\ Send(mac, frame)
    \/ \E t \in Targets : ClaimTimeout(t)
    \/ \E t \in Targets : SelectTimeout(t)
    \/ \E t \in Targets : ExchangeError(t)
    \/ \E t \in Targets : AppReceive(t)

\* The same bus, with an application on the Controller that sends frames to
\* its peers and applications on the Targets that take them from to_app when
\* they like and send nothing: from_app is empty and every reply to a Select
\* is the one-byte fallback.
SpecTgt == InitBus /\ [][NextTgt]_vars

\* The same, with an application that keeps calling step: a step that can
\* begin does begin, a step in progress goes on to its return (every await in
\* it is a send_frame or a recv under REPLY_TIMEOUT), and it returns.
SpecBusLive ==
    /\ SpecBus
    /\ WF_cpc(StepBegin)
    /\ WF_cpc(StepEnd)
    /\ []<>(cpc.phase \in {"idle", "done", "failed"})

NextSend ==
    \/ StepBegin
    \/ ServePeer
    \/ CompletePending
    \/ UpdateKnown
    \/ OfferAddr
    \/ StepEnd
    \/ \E mac \in MacDomain, frame \in UserFrames : Send(mac, frame)
    \/ Tick

\* The Controller and an application that only sends, as often as it likes.
SpecSend == Init /\ [][NextSend]_vars

\* An initialised Controller and one Target, Target 1, running.
InitJoin ==
    /\ peers = [j \in Slots |-> const_new]
    /\ held = [j \in Slots |-> 0]
    /\ alloc = [j \in Slots |-> 0]
    /\ cpc = Idle
    /\ sent = <<>>
    /\ tgt = [t \in Targets |-> IF t = 1 THEN TargetNew ELSE TargetOff]
    /\ wire = NoWire
    /\ bus = "wired"
    /\ pool = PoolNew
    /\ codec = NoCodec

\* The application has taken every frame from from_peer and dropped it.
Drained == \A j \in Slots : peers[j].from_peer = <<>> /\ held[j] = 0

\* offer_addr with a Target whose coin flip accepts: it claims the offer.
OfferClaimed == OfferAddr /\ wire'.txs # {}

\* Target t gets through no exchange for as long as SELECT_TIMEOUT: it waits
\* in to_app.send, or no Active slot has its address, so that no step selects
\* it.
Unselected(t) ==
    \/ tgt[t].pc = "to_app_send"
    \/ ~\E i \in Slots : is_active(peers[i]) /\ tgt[t].addr = i

NextJoin ==
    \/ Drained /\ StepBegin
    \/ ServePeer
    \/ CompletePending
    \/ UpdateKnown
    \/ OfferAddr
    \/ StepEnd
    \/ \E mac \in MacDomain : HeldBelow(mac, MaxHeld) /\ RecvFrom(mac)
    \/ \E i \in Slots : DropFrame(i)
    \/ \E macs \in MacLists : AddKnownMacs(macs)
    \/ \E mac \in MacDomain, frame \in UserFrames :
          QueuedBelow(mac, MaxQueued) /\ Send(mac, frame)
    \/ \E t \in Targets : AppReceive(t)
    \/ \E t \in Targets : Unselected(t) /\ SelectTimeout(t)

\* One Target joining: the Controller's application keeps calling step, each
\* step within the Target's timeouts of the one before, and takes and drops
\* what from_peer holds before it calls step again; a step begun goes on to
\* its return; the Target's coin flip accepts infinitely often.  The
\* Controller's application sends when it likes, the Target's application
\* takes frames from to_app when it likes, and SELECT_TIMEOUT ends the
\* service of a Target that is not selected or waits in to_app.send.
SpecJoin ==
    /\ InitJoin
    /\ [][NextJoin]_vars
    /\ WF_cpc(Drained /\ StepBegin)
    /\ WF_cpc(StepEnd)
    /\ []<>(cpc.phase \in {"idle", "done", "failed"})
    /\ WF_vars(\E mac \in MacDomain : HeldBelow(mac, MaxHeld) /\ RecvFrom(mac))
    /\ WF_vars(\E i \in Slots : DropFrame(i))
    /\ SF_vars(OfferClaimed)

\* Frames of an application that can be told apart, and how many of them it
\* queues for one peer.
OrderedFrames == {<<0, 10>>, <<0, 11>>}
MaxOrdered == 3

NextOrder ==
    \/ StepBegin
    \/ ServePeer /\ wire'.rxlen <= 1
    \/ CompletePending
    \/ UpdateKnown
    \/ OfferAddr
    \/ StepEnd
    \/ \E mac \in MacDomain, frame \in OrderedFrames :
          QueuedBelow(mac, MaxOrdered) /\ Send(mac, frame)

\* The Controller and an application that sends frames that can be told
\* apart, several between two steps, to peers that reply with bare
\* acknowledgements, if at all.
SpecOrder == Init /\ [][NextOrder]_vars

InitRecv == InitCommon /\ bus = "chatty" /\ pool = PoolNew /\ codec = NoCodec

NextRecv ==
    \/ StepBegin
    \/ ServePeer
    \/ CompletePending
    \/ UpdateKnown
    \/ OfferAddr
    \/ StepEnd
    \/ \E mac \in MacDomain : HeldBelow(mac, MaxHeld) /\ RecvFrom(mac)
    \/ \E i \in Slots : DropFrame(i)

\* The Controller and an application that only receives, when it likes,
\* frames that can be told apart.
SpecRecv == InitRecv /\ [][NextRecv]_vars

SliceIdx == 1 .. Len(pool.slices)

NextPool ==
    \/ Take
    \/ \E s \in SliceIdx, at \in 0 .. (PoolSlots + 1) : Split(s, at)
    \/ \E s \in SliceIdx : AllocBegin(s)
    \/ \E s \in SliceIdx : AllocLoad(s)
    \/ \E s \in SliceIdx : AllocStore(s)
    \/ \E k \in PoolIdx, len \in PoolLens : SetLen(k, len)
    \/ \E k \in PoolIdx : DropBox(k)

\* A frame storage, the slices split from it, each with its one owner
\* allocating, and the holders of the FrameBoxes setting lengths and dropping.
SpecPool == Init /\ [][NextPool]_vars

\* The commands of the five variants of CmdAddr, and the payloads of a u8.
Commands == {SELECT_ADDR, REPLY_FROM_ADDR, DISCOVERY_OFFER, DISCOVERY_CLAIM,
             DISCOVERY_SUCCESS}
U8 == 0 .. 255

\* Any CmdAddr value: one of the five variants with any u8 in it.
InitCodec ==
    /\ InitCommon
    /\ bus = "any"
    /\ pool = PoolNew
    /\ \E cmd \in Commands : \E addr \in U8 :
          codec = [NoCodec EXCEPT !.stage = "made", !.cmd = cmd, !.addr = addr]

\* u8::from(val)
Encode ==
    /\ codec.stage = "made"
    /\ codec' = [codec EXCEPT !.stage = "encoded",
                              !.byte = CmdAddrToU8(codec.cmd, codec.addr)]
    /\ UNCHANGED <<peers, held, alloc, cpc, sent, tgt, wire, bus, pool>>

\* CmdAddr::try_from(byte)
Decode ==
    /\ codec.stage = "encoded"
    /\ LET r == U8ToCmdAddr(codec.byte)
       IN  codec' = [codec EXCEPT !.stage = "decoded", !.ok = r.ok,
                                  !.dcmd = r.cmd, !.daddr = r.addr]
    /\ UNCHANGED <<peers, held, alloc, cpc, sent, tgt, wire, bus, pool>>

NextCodec == Encode \/ Decode

\* Every CmdAddr value, encoded to its byte and decoded again.
SpecCodec == InitCodec /\ [][NextCodec]_vars


\* ---------------------------------------------------------------- claims
\* C1: with one Controller stepping and two or more Targets running, no two
\* devices ever transmit at once: no frame of the Controller (DiscoveryOffer,
\* Select, DiscoverySuccess) is answered by more than one Target.
C1_OneTransmitter == Cardinality(wire.txs) <= 1

\* C2: no two peer slots are Active with the same UID (mac).
C2_NoDuplicateActiveMac ==
    \A i \in Slots : \A j \in Slots :
        (i # j /\ is_active(peers[i]) /\ is_active(peers[j]))
            => peers[i].mac # peers[j].mac

\* C4: a Target that joined the bus owns its logical address exclusively: no
\* two Targets are in the service loop with the same address.
C4_ExclusiveAddress ==
    \A t \in Targets : \A u \in Targets :
        (t # u /\ tgt[t].pc = "service" /\ tgt[u].pc = "service")
            => tgt[t].addr # tgt[u].addr


C5_SendsUpToOutgoingSize ==
    \A mac \in MacDomain \ {0} : \A frame \in UserFrames :
        \A j \in FindActiveMac(mac) :
            (Len(peers[j].to_peer) < OUTGOING_SIZE)
                => (SendResult(mac, frame) = "Ok")

\* The age in seconds of an Instant.
Age(instant) == now - instant

\* C6: Phase C does not reset to Free a Known peer (of a device's UID)
\* younger than KNOWN_TIMEOUT: it stays Known with its mac or becomes Active.
C6_YoungKnownNotReset ==
    [][(/\ cpc.phase = "C"
        /\ cpc' # cpc
        /\ peers[cpc.i].mac # 0
        /\ Age(peers[cpc.i].instant) < KNOWN_TIMEOUT)
       => (/\ peers'[cpc.i].state \in {"Known", "Active"}
           /\ peers'[cpc.i].mac = peers[cpc.i].mac)]_vars

\* C7: Phase C resets to Free, with mac 0, a Known peer (of a device's UID)
\* whose age has reached KNOWN_TIMEOUT, and transmits nothing for it.
C7_OldKnownReset ==
    [][(/\ cpc.phase = "C"
        /\ cpc' # cpc
        /\ peers[cpc.i].mac # 0
        /\ Age(peers[cpc.i].instant) >= KNOWN_TIMEOUT)
       => (/\ peers'[cpc.i].state = "Free"
           /\ peers'[cpc.i].mac = 0
           /\ sent' = sent)]_vars

\* C8: three strikes: an Active peer that did not answer its Select three
\* times in a row is dropped, so no peer is Active with three errors counted
\* right after a Select of it went unanswered.
C8_ThreeStrikes ==
    \A i \in Slots :
        (wire.kind = "timeout" /\ wire.hdr = SelectAddr(i) /\ peers[i].counter >= 3)
            => ~is_active(peers[i])

\* The reply to the last frame was the one byte ReplyFromAddr(i).
GoodAck(w, i) == w.kind = "ok" /\ w.rxlen = 1 /\ w.rxhdr = ReplyFromAddr(i)

C10_CounterBounded ==
    /\ [](\A i \in Slots : is_active(peers[i]) => peers[i].counter <= 3)
    /\ [][\A i \in Slots :
             (is_active(peers[i]) /\ ~is_active(peers'[i]))
                 => peers'[i].counter \in 0 .. 3]_vars

\* An Active peer stands at three strikes while another slot has just been
\* demoted to Known by its fourth.
C10_ThirdAndFourthStrike ==
    \E i \in Slots : \E j \in Slots :
        /\ is_active(peers[i])
        /\ peers[i].counter = 3
        /\ is_known(peers[j])
        /\ peers[j].counter = 0
        /\ wire.hdr = SelectAddr(j)
        /\ wire.kind \in {"timeout", "err"}


\* The DiscoveryOffer frames among the frames transmitted in the current step.
OffersSent == {k \in 1 .. Len(sent) : sent[k] \div 32 = DISCOVERY_OFFER}

\* C11: a call of step transmits at most one DiscoveryOffer frame.
C11_OneOfferPerStep == Cardinality(OffersSent) <= 1

\* A step that polled an Active peer is over, and its one offer was its last
\* frame.
C11_OfferAfterPoll ==
    /\ cpc.phase = "done"
    /\ Len(sent) >= 2
    /\ sent[1] \div 32 = SELECT_ADDR
    /\ OffersSent = {Len(sent)}


\* The number of live FrameBoxes, and of frames whose flag byte is not 0.
RECURSIVE LiveBoxesUpTo(_)
LiveBoxesUpTo(n) == IF n = 0 THEN 0 ELSE pool.boxes[n - 1] + LiveBoxesUpTo(n - 1)
LiveBoxes == LiveBoxesUpTo(PoolSlots)
NonZeroFlags == Cardinality({k \in PoolIdx : pool.flags[k] # 0})

\* C12: whatever the interleaving of allocate_raw, set_len and drops, a
\* frame's flag byte is 0 with no live FrameBox on it, or the length (1..255)
\* of exactly one live FrameBox; there are as many live FrameBoxes as non-zero
\* flag bytes, and no two live FrameBoxes refer to the same frame.
C12_FlagsMatchBoxes ==
    /\ \A k \in PoolIdx :
          /\ pool.flags[k] \in 0 .. 255
          /\ pool.boxes[k] <= 1
          /\ (pool.flags[k] = 0) <=> (pool.boxes[k] = 0)
    /\ LiveBoxes = NonZeroFlags

\* An owner is between its load and its store in allocate_raw, on a frame that
\* was handed out before (next_idx has passed it), while a FrameBox whose
\* length was set is live and another FrameBox has just been dropped.
C12_AllocAmongDrops ==
    \E s \in SliceIdx : \E k \in PoolIdx :
        /\ pool.slices[s].pc = "store"
        /\ pool.slices[s].idx < pool.slices[s].next_idx
        /\ pool.flags[k] = 1
        /\ pool.last.op = "drop"


\* No slot is Active with the UID mac.
NoActiveSlot(mac) ==
    \A j \in Slots : ~(peers[j].state = "Active" /\ peers[j].mac = mac)

\* C13: when no slot is Active with the UID, be it the UID of a Pending,
\* Known or Free slot, send returns NoMatchingMac and leaves every peer's
\* state, mac, counter and queues as they are.
C13_SendNoMatchingMac ==
    \A mac \in MacDomain : \A frame \in UserFrames :
        NoActiveSlot(mac)
            => /\ SendResult(mac, frame) = "NoMatchingMac"
               /\ SendPeers(mac, frame) = peers

\* Between two steps a slot is Known with a device's UID that no slot is
\* Active with, while the other slot is Active with another UID.
C13_KnownUidNotActive ==
    \E j \in Slots : \E i \in Slots :
        /\ cpc.phase = "idle"
        /\ is_known(peers[j])
        /\ peers[j].mac # 0
        /\ NoActiveSlot(peers[j].mac)
        /\ is_active(peers[i])

\* C14: recv_from returns NoMatchingMac iff no slot is Active with the UID,
\* NoMessage iff there is one and its from_peer is empty, and else the oldest
\* frame: a step puts a received frame in front of all the frames from_peer
\* holds, and recv_from takes the one behind all the others.
C14_RecvFromFifo ==
    /\ [](\A mac \in MacDomain :
            /\ (RecvFromResult(mac).res = "NoMatchingMac") <=> NoActiveSlot(mac)
            /\ (RecvFromResult(mac).res = "NoMessage")
                  <=> \E j \in Slots :
                         /\ peers[j].state = "Active"
                         /\ peers[j].mac = mac
                         /\ \A h \in Slots :
                               (peers[h].state = "Active" /\ peers[h].mac = mac)
                                   => j <= h
                         /\ peers[j].from_peer = <<>>)
    /\ [][\A i \in Slots :
            LET q == peers[i].from_peer
                r == peers'[i].from_peer
            IN  /\ (cpc.phase = "A" /\ cpc.i = i /\ is_active(peers'[i]))
                      => (r = q \/ (Len(r) = Len(q) + 1 /\ SubSeq(r, 2, Len(r)) = q))
                /\ (held'[i] = held[i] + 1)
                      => /\ Len(q) > 0
                         /\ RecvFromResult(peers[i].mac).res = "Ok"
                         /\ RecvFromResult(peers[i].mac).frame = q[Len(q)]
                         /\ r = SubSeq(q, 1, Len(q) - 1)]_vars

\* The application holds a frame with one payload while from_peer holds two
\* frames with different payloads, the older one the next to be returned.
C14_TwoDifferentQueued ==
    \E i \in Slots :
        /\ is_active(peers[i])
        /\ held[i] = 1
        /\ Len(peers[i].from_peer) = 2
        /\ peers[i].from_peer[1] # peers[i].from_peer[2]
        /\ RecvFromResult(peers[i].mac).frame = peers[i].from_peer[2]


\* The slots add_known_macs may take: Free, with every frame of their pool
\* free.
IdleSlots ==
    {j \in Slots : peers[j].state = "Free" /\ held[j] = 0 /\ peers[j].from_peer = <<>>}

\* C15: add_known_macs(macs) changes idle slots only: min(len(macs), number of
\* idle slots) of them become Known(now), each with an element of macs of its
\* own, and every other slot keeps its state, mac, counter and queues.
C15_AddKnownMacsFrame ==
    \A macs \in MacLists :
        LET np == AddKnownFrom(peers, 0, macs)
            promoted == {j \in Slots : np[j] # peers[j]}
            n == IF Len(macs) < Cardinality(IdleSlots)
                 THEN Len(macs) ELSE Cardinality(IdleSlots)
        IN  /\ promoted \subseteq IdleSlots
            /\ Cardinality(promoted) = n
            /\ \A j \in promoted :
                  np[j] = [peers[j] EXCEPT !.state = "Known", !.instant = now,
                                           !.mac = np[j].mac]
            /\ \E f \in [promoted -> 1 .. Len(macs)] :
                  /\ \A j \in promoted : np[j].mac = macs[f[j]]
                  /\ \A j \in promoted : \A h \in promoted : (f[j] = f[h]) => (j = h)

\* Between two steps one slot is Active, one is idle, and a list of two UIDs
\* would fill the one idle slot with its last UID.
C15_OneIdleTwoMacs ==
    \E i \in Slots : \E j \in Slots :
        /\ cpc.phase = "idle"
        /\ is_active(peers[i])
        /\ peers[i].mac # 0
        /\ IdleSlots = {j}
        /\ \E macs \in MacLists :
              /\ Len(macs) = 2
              /\ macs[1] # macs[2]
              /\ AddKnownFrom(peers, 0, macs)[j].mac = macs[2]
              /\ AddKnownFrom(peers, 0, macs)[j].state = "Known"

\* The step just taken is a bus transaction of step in which send_frame
\* (SendErr) or recv (RecvErr) returned a driver error.
SendErr == cpc.phase \in {"A", "B", "C", "D"} /\ cpc' # cpc /\ wire'.kind = "senderr"
RecvErr == Len(sent') = Len(sent) + 1 /\ wire'.kind = "err"

\* C16 as stated: whenever send_frame or recv returns a driver error in any
\* phase of step, step returns the error at once, with no further bus
\* operation in that call.
C16_AnyErrorReturns ==
    [][(SendErr \/ RecvErr) => (cpc'.phase = "failed")]_vars

\* C16, amended: step returns at once on an error of send_frame in any phase
\* and on an error of recv in Phases A and D; an error of recv in Phase B or C
\* counts as a missing ack and step goes on.  After the return nothing more is
\* sent in that call, and the errors counted stay counted: the peer polled in
\* Phase A has one more error or was demoted to Known, the Pending peer of
\* Phase B is Free, and every other slot is as it was.
C16_ErrorsReturnOrCount ==
    /\ [][(SendErr \/ RecvErr)
            => /\ (cpc'.phase = "failed") <=> ~(RecvErr /\ cpc.phase \in {"B", "C"})
               /\ \A j \in Slots : (j # cpc.i \/ cpc.phase = "D")
                                      => peers'[j] = peers[j]]_vars
    /\ [][(RecvErr /\ cpc.phase = "A")
            => \/ peers'[cpc.i].counter = peers[cpc.i].counter + 1
               \/ (is_known(peers'[cpc.i]) /\ peers[cpc.i].counter = 3)]_vars
    /\ [][(RecvErr /\ cpc.phase = "B") => peers'[cpc.i] = reset_to_free(peers[cpc.i])]_vars
    /\ [][(RecvErr /\ cpc.phase = "C") => peers'[cpc.i] = peers[cpc.i]]_vars
    /\ [][cpc.phase = "failed" => (sent' \in {sent, <<>>} /\ peers' = peers)]_vars

\* step is returning the receive error of a Select whose peer already had an
\* error counted.
C16_PollErrorCounted ==
    \E i \in Slots :
        /\ cpc.phase = "failed"
        /\ wire.kind = "err"
        /\ wire.hdr = SelectAddr(i)
        /\ is_active(peers[i])
        /\ peers[i].counter = 2


\* C17 as stated: split(at) returns None, and leaves the slice as it was, when
\* at is 0 and when at is the current capacity of the slice.
C17_SplitRefusesZeroAndCapacity ==
    [][(/\ pool'.last.op = "split"
        /\ pool'.last # pool.last
        /\ pool'.last.arg \in {0, pool'.last.cap})
          => (pool'.last.res = "None" /\ pool'.slices = pool.slices)]_vars

\* The frames of the storage that slice s covers.
SliceRange(s) ==
    {k \in PoolIdx : pool.slices[s].start <= k
                     /\ k < pool.slices[s].start + pool.slices[s].len}

\* The step just taken is a split of slice s that returned a new slice.
SplitDone(s) ==
    /\ pool'.last.op = "split"
    /\ pool'.last.res = "Some"
    /\ Len(pool'.slices) = Len(pool.slices) + 1
    /\ pool'.slices[s] # pool.slices[s]

\* C18: a successful split of a slice of capacity N at k leaves capacity k in
\* the slice and capacity N - k in the new one, N in sum; the slices made by
\* take and split cover disjoint frames, each frame is handed out by the slice
\* that covers it and by no other, and never while a FrameBox on it is live.
C18_SplitHalvesDisjoint ==
    /\ [][\A s \in SliceIdx : SplitDone(s) =>
            LET left  == pool'.slices[s]
                right == pool'.slices[Len(pool'.slices)]
                N == pool.slices[s].len
                k == pool'.last.arg
            IN  /\ left.len = k
                /\ right.len = N - k
                /\ left.len + right.len = N
                /\ left.start = pool.slices[s].start
                /\ right.start = left.start + k]_vars
    /\ [](\A s \in SliceIdx : \A t \in SliceIdx :
            (s # t) => (SliceRange(s) \cap SliceRange(t) = {}))
    /\ [][\A x \in PoolIdx : (pool'.boxes[x] > pool.boxes[x]) =>
            /\ pool.boxes[x] = 0
            /\ Cardinality({s \in SliceIdx : x \in SliceRange(s)}) = 1
            /\ \A s \in SliceIdx :
                  (x \in SliceRange(s)) <=> (pool.slices[s].pc # pool'.slices[s].pc)]_vars

\* A storage was split in two slices of one frame or more, and a FrameBox from
\* each of them is live.
C18_BoxFromEachHalf ==
    /\ Len(pool.slices) >= 2
    /\ \E x \in SliceRange(1) : \E y \in SliceRange(2) :
          pool.boxes[x] = 1 /\ pool.boxes[y] = 1

\* C19: of any number of calls of FrameStorage::take on one storage, the first
\* returns a slice and every other returns None, so from_static ran once.
C19_TakeOnce ==
    /\ pool.from_static = (IF pool.takes >= 1 THEN 1 ELSE 0)
    /\ (pool.last.op = "take") =>
          ((pool.last.res = "Some") <=> (pool.takes = 1))

\* take was called a second time and returned None.
C19_SecondTakeRefused ==
    /\ pool.takes = 2
    /\ pool.last.op = "take"
    /\ pool.last.res = "None"
    /\ Len(pool.slices) = 1


\* C20 as stated: decoding the encoding of a CmdAddr gives the same CmdAddr,
\* for each of the five commands and every u8 address payload.
C20_RoundTripAnyPayload ==
    (codec.stage = "decoded") =>
        (codec.ok /\ codec.dcmd = codec.cmd /\ codec.daddr = codec.addr)

\* C20, amended: decoding the encoding of X(a) gives Ok(X(a)) for each of the
\* five commands and every payload a in 0 ..= 31; for a payload above 31 it
\* gives Ok(X(a & 0x1F)), the same command with the low five bits of a.
C20_RoundTripFiveBits ==
    (codec.stage = "decoded") =>
        /\ codec.ok
        /\ codec.dcmd = codec.cmd
        /\ (codec.addr <= 31) => (codec.daddr = codec.addr)
        /\ (codec.addr > 31) => (codec.daddr = codec.addr - 32 * (codec.addr \div 32))

\* DiscoverySuccess(31) and DiscoverySuccess(255) both come back as
\* DiscoverySuccess(31).
C20_HighBitsDropped ==
    /\ codec.stage = "decoded"
    /\ codec.cmd = DISCOVERY_SUCCESS
    /\ codec.addr \in {31, 255}
    /\ codec.byte = 255
    /\ codec.ok
    /\ codec.dcmd = DISCOVERY_SUCCESS
    /\ codec.daddr = 31


\* The step just taken is a bus transaction of the Controller: a frame went
\* out and every Target heard it.
Transacted == Len(sent') = Len(sent) + 1

\* The step just taken is the DiscoverySuccess transaction of Phase B or C for
\* slot cpc.i.
SuccessSent == Transacted /\ cpc.phase \in {"B", "C"}

\* C21: a Target leaves get_success for address a, sending the empty
\* ReplyFromAddr(a), only on hearing DiscoverySuccess(a) with its own UID, and
\* it waits in get_success for a only after sending DiscoveryClaim(a) for the
\* offer of a; on every other frame it stays where it is and sends nothing.
\* At most one Target acknowledges a DiscoverySuccess frame.
C21_AckOnlyOwnSuccess ==
    /\ [][\A t \in Targets :
            (tgt[t].pc # "get_success" /\ tgt'[t].pc = "get_success") =>
                /\ Transacted
                /\ cpc.phase = "D"
                /\ wire'.hdr = DiscoveryOffer(tgt'[t].addr)
                /\ t \in wire'.txs]_vars
    /\ [][\A t \in Targets :
            (tgt[t].pc = "get_success" /\ tgt'[t].pc = "service") =>
                /\ SuccessSent
                /\ cpc.i = tgt[t].addr
                /\ wire'.hdr = DiscoverySuccess(tgt[t].addr)
                /\ ToLeBytes(peers[cpc.i].mac) = TargetMac(t)
                /\ tgt'[t].addr = tgt[t].addr
                /\ t \in wire'.txs]_vars
    /\ [][\A t \in Targets :
            (Transacted /\ tgt[t].pc = "get_success") =>
                \/ tgt'[t].pc = "service"
                \/ (tgt'[t] = tgt[t] /\ t \notin wire'.txs)]_vars
    /\ [][SuccessSent =>
            Cardinality({t \in Targets : tgt[t].pc = "get_success"
                                         /\ t \in wire'.txs}) <= 1]_vars

\* Two Targets claimed the offer of one address; the DiscoverySuccess for it
\* carried the UID of one, which acknowledged; the other is still waiting.
C21_OneOfTwoClaimantsAcks ==
    \E t \in Targets : \E u \in Targets :
        /\ t # u
        /\ cpc.phase \in {"C", "D"}
        /\ wire.hdr = DiscoverySuccess(tgt[t].addr)
        /\ wire.txs = {t}
        /\ tgt[t].pc = "service"
        /\ tgt[u].pc = "get_success"
        /\ tgt[u].addr = tgt[t].addr

\* C22: a Target waiting for an offer that hears DiscoverySuccess for the
\* address it claimed before, with its own UID, takes the address again: it
\* acknowledges and is in service at that address, so that the Known slot can
\* become Active.
C22_WarmReclaim ==
    [][\A t \in Targets :
         (/\ SuccessSent
          /\ cpc.phase = "C"
          /\ tgt[t].pc = "get_offer"
          /\ ToLeBytes(peers[cpc.i].mac) = TargetMac(t))
            => /\ tgt'[t].pc = "service"
               /\ tgt'[t].addr = cpc.i
               /\ t \in wire'.txs]_vars


\* No Target answers at address i: none is in service there.
Unanswered(i) == \A t \in Targets : ~(tgt[t].pc = "service" /\ tgt[t].addr = i)

\* C23: when the Target of an Active slot has stopped responding for good and
\* the Controller keeps calling step, the slot becomes Free with mac 0 (its
\* UID has then left connected()).
C23_LostPeerFreed ==
    \A i \in Slots :
        (is_active(peers[i]) /\ Unanswered(i))
           ~> (peers[i].state = "Free" /\ peers[i].mac = 0)


\* The command and the address of a header byte sent by step.
CmdOf(h) == h \div 32
AddrOf(h) == h % 32

\* The headers sent so far by the step in progress are those of one pass over
\* the phases: Selects in ascending address, then DiscoverySuccess frames, no
\* two for one address, then at most one DiscoveryOffer.
OnePass(hs) ==
    LET rank(h) == CASE CmdOf(h) = SELECT_ADDR -> 1
                     [] CmdOf(h) = DISCOVERY_SUCCESS -> 2
                     [] CmdOf(h) = DISCOVERY_OFFER -> 3
                     [] OTHER -> 0
    IN  \A a \in 1 .. Len(hs) : \A b \in 1 .. Len(hs) :
            (a < b) =>
                /\ rank(hs[a]) >= 1
                /\ rank(hs[a]) <= rank(hs[b])
                /\ (rank(hs[b]) = 1) => (AddrOf(hs[a]) < AddrOf(hs[b]))
                /\ (rank(hs[a]) = 2 /\ rank(hs[b]) = 2) => (AddrOf(hs[a]) # AddrOf(hs[b]))
                /\ rank(hs[a]) # 3

SelectSent == Transacted /\ cpc.phase = "A"

\* C26: in Phase A a reply in time whose first byte is ReplyFromAddr(i) sets
\* the counter of slot i to 0, and it is enqueued in from_peer, with the
\* length received, iff it is longer than 1 byte.  A reply of length 0 or
\* with another first byte, and a timeout, count an error and enqueue nothing.
C26_ReplyClassified ==
    [][SelectSent =>
         LET i == cpc.i
             good == /\ wire'.kind = "ok"
                     /\ wire'.rxlen >= 1
                     /\ wire'.rxhdr = ReplyFromAddr(i)
             fp  == peers[i].from_peer
             fp2 == peers'[i].from_peer
         IN  /\ good =>
                  /\ is_active(peers'[i])
                  /\ peers'[i].counter = 0
                  /\ (wire'.rxlen > 1) =>
                        /\ Len(fp2) = Len(fp) + 1
                        /\ Tail(fp2) = fp
                        /\ Len(Head(fp2)) = wire'.rxlen
                        /\ Head(fp2)[1] = wire'.rxhdr
                  /\ (wire'.rxlen = 1) => (fp2 = fp)
             /\ (~good /\ wire'.kind \in {"ok", "timeout"}) =>
                  \/ /\ is_active(peers'[i])
                     /\ peers'[i].counter = peers[i].counter + 1
                     /\ fp2 = fp
                  \/ /\ is_known(peers'[i])
                     /\ peers[i].counter = 3
                     /\ fp2 = <<>>]_vars

\* A reply with a payload was enqueued behind an earlier one, and the reply
\* to the next Select held the header alone.
C26_PayloadThenEmptyAck ==
    \E i \in Slots :
        /\ wire.hdr = SelectAddr(i)
        /\ wire.kind = "ok"
        /\ wire.rxhdr = ReplyFromAddr(i)
        /\ wire.rxlen = 1
        /\ Len(peers[i].from_peer) = 2
        /\ peers[i].counter = 0


\* C27 as stated: when send_frame fails for the Select of Active slot i,
\* increment_error is applied to the peer before step returns the error.
C27_SendErrorCounted ==
    [][(SendErr /\ cpc.phase = "A") =>
          \/ peers'[cpc.i].counter = peers[cpc.i].counter + 1
          \/ (is_known(peers'[cpc.i]) /\ peers[cpc.i].counter = 3)]_vars

\* Every frame of the incoming pool of slot i is taken: queued in from_peer
\* or held by the application.
PoolExhausted(i) == Len(peers[i].from_peer) + held[i] = INCOMING_SIZE

C29_FromPeerCapIsPoolSize ==
    \A j \in Slots :
        /\ FromPeerCap - Len(peers[j].from_peer)
              = (INCOMING_SIZE - Len(peers[j].from_peer))
        /\ Len(peers[j].from_peer) <= INCOMING_SIZE - count_allocatable(j)

\* C30: a DiscoveryOffer is sent in Phase D only, for the lowest slot that is
\* Free with its whole pool free; with no such slot Phase D sends nothing.
C30_OffersLowestIdle ==
    /\ [][(Transacted /\ cpc.phase = "D") =>
            \E i \in Slots :
                /\ wire'.hdr = DiscoveryOffer(i)
                /\ peers[i].state = "Free"
                /\ Len(peers[i].from_peer) + held[i] = 0
                /\ \A j \in Slots :
                      (j < i) => ~(peers[j].state = "Free"
                                   /\ Len(peers[j].from_peer) + held[j] = 0)]_vars
    /\ [][(Transacted /\ CmdOf(wire'.hdr) = DISCOVERY_OFFER) => (cpc.phase = "D")]_vars
    /\ [][(cpc.phase = "D" /\ cpc' # cpc /\ IdleSlots = {}) =>
            (sent' = sent /\ peers' = peers /\ cpc' = Done)]_vars

\* Slot 0 is Free but the application still holds a frame of its pool: the
\* offer went out for slot 1.
C30_HeldFrameSkipsSlot ==
    /\ cpc.phase = "done"
    /\ peers[0].state = "Free"
    /\ held[0] = 1
    /\ wire.hdr = DiscoveryOffer(1)
    /\ Back(sent) = DiscoveryOffer(1)


\* C31: a slot becomes Pending only in Phase D, as the slot offered, on a
\* reply of exactly 1 + UidBytes bytes headed DiscoveryClaim of that slot; when
\* one Target alone claimed, the mac recorded is that Target's UID, whatever
\* the challenge was.
C31_ClaimRecoversUid ==
    [][\A i \in Slots :
         (~is_pending(peers[i]) /\ is_pending(peers'[i])) =>
            /\ Transacted
            /\ cpc.phase = "D"
            /\ peers[i].state = "Free"
            /\ wire'.hdr = DiscoveryOffer(i)
            /\ wire'.kind = "ok"
            /\ wire'.rxlen = 1 + UidBytes
            /\ wire'.rxhdr = DiscoveryClaim(i)
            /\ \A t \in Targets :
                  (wire'.txs = {t}) =>
                      /\ peers'[i].mac = FromLeBytes(TargetMac(t))
                      /\ ToLeBytes(peers'[i].mac) = TargetMac(t)]_vars

\* Target 2 alone claimed the offer of slot 1, slot 0 being taken: slot 1 is
\* Pending with the UID of Target 2.
C31_SecondTargetPending ==
    /\ cpc.phase = "done"
    /\ wire.hdr = DiscoveryOffer(1)
    /\ wire.txs = {2}
    /\ is_pending(peers[1])
    /\ peers[1].mac = FromLeBytes(TargetMac(2))
    /\ is_active(peers[0])


\* The place of a phase in step: serve_peers, complete_pendings, update_known,
\* offer_addr, then the return.
PhaseRank(ph) ==
    CASE ph = "idle" -> 0
      [] ph = "A" -> 1
      [] ph = "B" -> 2
      [] ph = "C" -> 3
      [] ph = "D" -> 4
      [] OTHER -> 5

\* C32: within one step the phases run in the order A, B, C, D and each visits
\* the slots in ascending index.  A slot that Phase B or C resets to Free is
\* there for the offer of Phase D of the same step, which goes to the lowest
\* idle slot; a slot that Phase B or C makes Active gets no Select before the
\* next step, Selects being sent in Phase A only.
C32_PhasesInOrder ==
    /\ [][(cpc.phase \in {"A", "B", "C", "D"} /\ cpc' # cpc) =>
            /\ PhaseRank(cpc'.phase) >= PhaseRank(cpc.phase)
            /\ (cpc'.phase = cpc.phase) => (cpc'.i > cpc.i)]_vars
    /\ [][(Transacted /\ CmdOf(wire'.hdr) = SELECT_ADDR) =>
            /\ cpc.phase = "A"
            /\ AddrOf(wire'.hdr) = cpc.i
            /\ is_active(peers[cpc.i])]_vars
    /\ [][\A i \in Slots :
            (~is_active(peers[i]) /\ is_active(peers'[i])) =>
                /\ cpc.phase \in {"B", "C"}
                /\ cpc.i = i
                /\ cpc'.phase \in {"B", "C", "D"}]_vars
    /\ [][\A i \in Slots :
            (peers[i].state # "Free" /\ peers'[i].state = "Free") =>
                /\ cpc.phase \in {"B", "C"}
                /\ cpc.i = i
                /\ cpc'.phase \in {"B", "C", "D"}
                /\ Len(peers'[i].from_peer) = 0]_vars
    /\ [][(cpc.phase = "D" /\ Transacted) =>
            \A j \in Slots :
                (peers[j].state = "Free" /\ Len(peers[j].from_peer) + held[j] = 0)
                    => AddrOf(wire'.hdr) <= j]_vars

\* One step: Phase A had nobody to poll; Phase B sent DiscoverySuccess to the
\* Pending slot 1, got no acknowledgement and reset it to Free; Phase C made
\* the Known slot 0 Active; Phase D offered slot 1, which was claimed.  No
\* Select was sent to slot 0.
C32_FreedSlotOfferedSameStep ==
    /\ cpc.phase = "done"
    /\ sent = <<DiscoverySuccess(1), DiscoverySuccess(0), DiscoveryOffer(1)>>
    /\ is_active(peers[0])
    /\ is_pending(peers[1])


\* Target t is in its service loop: get_addr has returned and run() is in
\* exchange_one, receiving or handing a frame to the application.
InService(t) == tgt[t].pc \in {"service", "to_app_send"}

\* The frame the Controller just sent is a Select for the address of Target
\* t, which was listening for it.
Selected(t) ==
    /\ Transacted
    /\ tgt[t].pc = "service"
    /\ IsSelectFor(tgt[t].addr, wire'.tx)

\* C33 as stated: a Target in its service loop transmits for a frame of the
\* Controller exactly when that frame is a Select for its address, and then a
\* frame headed ReplyFromAddr of its address; it hands a Select with a body to
\* the application queue and a one-byte Select not.
C33_OneReplyPerSelect ==
    [][\A t \in Targets :
         (Transacted /\ tgt[t].pc = "service") =>
            /\ (t \in wire'.txs) <=> IsSelectFor(tgt[t].addr, wire'.tx)
            /\ (wire'.txs = {t}) =>
                  (wire'.kind = "ok" /\ wire'.rxhdr = ReplyFromAddr(tgt[t].addr))
            /\ tgt'[t].to_app =
                  IF IsSelectFor(tgt[t].addr, wire'.tx) /\ Len(wire'.tx) > 1
                  THEN tgt[t].to_app + 1
                  ELSE tgt[t].to_app]_vars

\* C34: a Target whose exchange fails or times out is out of the service
\* loop, at the top of get_addr, with Disconnected signalled; outside the
\* service loop it answers no Select; it is back in service only through
\* DiscoverySuccess for the address it claimed, and Connected(a) is signalled
\* exactly while it serves a.
C34_FailureLeavesService ==
    /\ [](\A t \in Targets :
            /\ tgt[t].state.connected <=> InService(t)
            /\ tgt[t].state.connected => (tgt[t].state.addr = tgt[t].addr))
    /\ [][\A t \in Targets :
            (InService(t) /\ tgt'[t].pc \notin {"service", "to_app_send"}) =>
                /\ tgt'[t].pc = "get_offer"
                /\ tgt'[t].state = StateDisconnected
                /\ wire' = wire]_vars
    /\ [][\A t \in Targets :
            (Transacted /\ ~InService(t) /\ CmdOf(wire'.hdr) = SELECT_ADDR) =>
                (t \notin wire'.txs /\ tgt'[t] = tgt[t])]_vars
    /\ [][\A t \in Targets :
            (~InService(t) /\ tgt'[t].pc = "service") =>
                /\ tgt[t].pc = "get_success"
                /\ SuccessSent
                /\ wire'.hdr = DiscoverySuccess(tgt[t].addr)
                /\ t \in wire'.txs
                /\ tgt'[t].state = StateConnected(tgt[t].addr)]_vars

\* Target 1 left its service loop with to_app full; the Controller still has
\* its UID in an Active slot and has had a Select go unanswered.
C34_LeftWithQueueFull ==
    \E i \in Slots :
        /\ tgt[1].pc = "get_offer"
        /\ tgt[1].state = StateDisconnected
        /\ tgt[1].to_app = ToAppCap
        /\ is_active(peers[i])
        /\ peers[i].mac = FromLeBytes(TargetMac(1))
        /\ peers[i].counter >= 1
        /\ wire.hdr = SelectAddr(i)
        /\ wire.kind = "timeout"

\* C35 as stated: a Target that hears a Select for its address transmits its
\* reply in that exchange and stays in the service loop, whatever the state
\* of the queues to and from the application.
C35_ReplyWithoutApp ==
    [][\A t \in Targets :
         Selected(t) => (t \in wire'.txs /\ tgt'[t].pc = "service")]_vars


\* C36: no call of init, step, send, recv_from, connected or add_known_macs,
\* whatever the serial port answers, applies a peer transition to a slot in a
\* state it panics on: promote_to_pending and promote_to_known_with_mac meet
\* Free slots only, promote_to_active Pending or Known ones, reset_to_known
\* Active ones.
C36_NoPanic ==
    \A i \in Slots : peers[i].state \in {"Free", "Pending", "Active", "Known"}

\* add_known_macs was called while slot 0 was Pending: it passed slot 0 over
\* and made the idle slot 1 Known.
C36_KnownAddedBesidePending ==
    /\ cpc.phase = "idle"
    /\ is_pending(peers[0])
    /\ is_known(peers[1])
    /\ peers[1].instant = now
    /\ peers[1].mac # 0


\* C37: no frame of an incoming pool leaks.  Whenever no call of the
\* Controller is in progress, the frames allocated in a peer's pool are those
\* queued in its from_peer and those the application holds; a state
\* transition of the slot empties from_peer and leaves allocated only what
\* the application holds; a Select exchange that queued nothing (a failed,
\* empty or refused reply, an error) leaves no more allocated than before.
C37_NoFrameLeak ==
    /\ []((cpc.phase = "idle") =>
            \A i \in Slots : alloc[i] = Len(peers[i].from_peer) + held[i])
    /\ [][\A i \in Slots :
            (peers'[i].state # peers[i].state) =>
                (peers'[i].from_peer = <<>> /\ alloc'[i] = held'[i])]_vars
    /\ [][\A i \in Slots :
            (cpc = [phase |-> "A", i |-> i] /\ cpc' # cpc
             /\ Len(peers'[i].from_peer) <= Len(peers[i].from_peer)) =>
                alloc'[i] <= alloc[i]]_vars

\* A peer was demoted with frames queued in from_peer while the application
\* held one more: between steps, the one held is all that is allocated.
C37_HeldFrameOutlivesDemotion ==
    \E i \in Slots :
        /\ cpc.phase = "idle"
        /\ is_known(peers[i])
        /\ held[i] = 1
        /\ alloc[i] = 1
        /\ count_allocatable(i) = INCOMING_SIZE - 1

\* C38: no frame crosses from one peer, or one Active period, to another.
\* Every state transition of a slot leaves both its queues empty, and while a
\* slot stays Active its mac stays.  from_peer grows only by the reply that
\* Phase A just received from that slot, at its front, and shrinks only at its
\* back, into the hands of the application, between steps; to_peer grows only
\* by a frame of the application, at its front, between steps, and shrinks
\* only at its back, in the slot's turn of Phase A, into the Select sent to it.
C38_QueuesStayWithPeer ==
    /\ [][\A i \in Slots :
            (peers'[i].state # peers[i].state) =>
                (peers'[i].to_peer = <<>> /\ peers'[i].from_peer = <<>>)]_vars
    /\ [][\A i \in Slots :
            (is_active(peers[i]) /\ is_active(peers'[i])) =>
                (peers'[i].mac = peers[i].mac)]_vars
    /\ [][\A i \in Slots :
            (peers'[i].state = peers[i].state
             /\ peers'[i].from_peer # peers[i].from_peer) =>
                /\ is_active(peers[i])
                /\ \/ /\ SelectSent
                      /\ cpc.i = i
                      /\ wire'.kind = "ok"
                      /\ wire'.rxhdr = ReplyFromAddr(i)
                      /\ Tail(peers'[i].from_peer) = peers[i].from_peer
                      /\ Len(peers'[i].from_peer[1]) = wire'.rxlen
                      /\ peers'[i].from_peer[1][1] = wire'.rxhdr
                   \/ /\ cpc.phase = "idle"
                      /\ held'[i] = held[i] + 1
                      /\ peers'[i].from_peer = PopBack(peers[i].from_peer)
                      /\ RecvFromResult(peers[i].mac).frame = Back(peers[i].from_peer)]_vars
    /\ [][\A i \in Slots :
            (peers'[i].state = peers[i].state
             /\ peers'[i].to_peer # peers[i].to_peer) =>
                /\ is_active(peers[i])
                /\ \/ /\ cpc.phase = "idle"
                      /\ Tail(peers'[i].to_peer) = peers[i].to_peer
                      /\ peers'[i].to_peer[1] \in UserFrames
                      /\ SendResult(peers[i].mac, peers'[i].to_peer[1]) = "Ok"
                   \/ /\ cpc = [phase |-> "A", i |-> i]
                      /\ peers'[i].to_peer = PopBack(peers[i].to_peer)
                      /\ Transacted => (Tail1(wire'.tx) = Tail1(Back(peers[i].to_peer)))]_vars

\* An Active peer with a frame queued for it, a frame received from it and
\* queued, and one more in the hands of the application.
C38_FramesBothWays ==
    \E i \in Slots :
        /\ cpc.phase = "idle"
        /\ is_active(peers[i])
        /\ Len(peers[i].to_peer) = 1
        /\ Len(peers[i].from_peer) >= 1
        /\ held[i] = 1


\* C39: the frames send accepted for an Active peer go out in the order of
\* the sends, one per step at most and each once.  In the peer's turn of
\* Phase A the frame at the back of to_peer, the oldest, leaves the queue and
\* is the body of the Select, whatever comes back; send puts a frame at the
\* front; the queue changes in no other way while the peer stays Active; no
\* step sends two Selects to one slot; a peer that leaves Active has its queue
\* emptied, and a slot that is not Active is sent no Select.
C39_SendOrderKept ==
    /\ [][\A i \in Slots :
            (SelectSent /\ cpc.i = i) =>
                /\ is_active(peers[i])
                /\ wire'.tx = IF peers[i].to_peer = <<>>
                              THEN <<SelectAddr(i)>>
                              ELSE <<SelectAddr(i)>> \o Tail1(Back(peers[i].to_peer))
                /\ is_active(peers'[i]) =>
                      (peers'[i].to_peer = IF peers[i].to_peer = <<>> THEN <<>>
                                           ELSE PopBack(peers[i].to_peer))]_vars
    /\ [][\A i \in Slots :
            (is_active(peers[i]) /\ is_active(peers'[i])
             /\ peers'[i].to_peer # peers[i].to_peer) =>
                \/ /\ cpc.phase = "idle"
                   /\ Len(peers'[i].to_peer) = Len(peers[i].to_peer) + 1
                   /\ Tail(peers'[i].to_peer) = peers[i].to_peer
                \/ /\ cpc = [phase |-> "A", i |-> i]
                   /\ peers'[i].to_peer = PopBack(peers[i].to_peer)]_vars
    /\ [][\A i \in Slots :
            (is_active(peers[i]) /\ ~is_active(peers'[i])) =>
                (peers'[i].to_peer = <<>>)]_vars
    /\ [](\A a \in 1 .. Len(sent) : \A b \in 1 .. Len(sent) :
            (a # b /\ CmdOf(sent[a]) = SELECT_ADDR /\ CmdOf(sent[b]) = SELECT_ADDR)
                => (AddrOf(sent[a]) # AddrOf(sent[b])))

\* The application queued <<0, 10>>, then <<0, 11>>, then <<0, 10>> again for
\* one peer; the step in progress has sent the first and got nothing back; the
\* other two wait in their order.
C39_OldestFrameSentFirst ==
    \E i \in Slots :
        /\ cpc.phase \in {"A", "B", "C", "D"}
        /\ wire.tx = <<SelectAddr(i), 10>>
        /\ wire.kind = "timeout"
        /\ is_active(peers[i])
        /\ peers[i].to_peer = << <<0, 10>>, <<0, 11>> >>


\* The UID of Target 1 is in the list connected() returns.
Joined == \E k \in 1 .. Len(connected) : connected[k] = FromLeBytes(TargetMac(1))

\* C40: a single Target without an address, on a reliable bus, with a
\* Controller that keeps calling step: the Target's UID comes to be in
\* connected(), and from then on it stays there.
C40_JoinsAndStays == (<>Joined) /\ [](Joined => []Joined)

\* The first half alone: the Target's UID comes to be in connected().
C40_Joins == <>Joined

\* Target 1 serves address 0, slot 0 is Active with its UID, and the
\* application holds a frame received from it.
C40_JoinedAndExchanging ==
    /\ Joined
    /\ cpc.phase = "idle"
    /\ is_active(peers[0])
    /\ tgt[1].pc = "service"
    /\ tgt[1].addr = 0
    /\ tgt[1].state = StateConnected(0)
    /\ held[0] = 1

============================================================================
